---- MODULE Spec2Model ----
(***************************************************************************)
(* A model of EnumSetDiGraph (src/src/enum_graph/mod.rs): a directed graph *)
(* over the values of a fixed enum, stored as one adjacency set per enum   *)
(* value.  The enum values are modelled by their ordinals 0..NumNodes-1,   *)
(* an EnumSet by a set of ordinals, the EnumMap by a function on Nodes.    *)
(* The state machine is a client holding one graph (adj_sets) that calls   *)
(* the operations of the type; the depth-first search of reachable_nodes   *)
(* and the parallel reduction of from_par_iter are also run step by step.  *)
(***************************************************************************)
EXTENDS Naturals, Integers, Sequences, FiniteSets, Bags, TLC

\* ---------------------------------------------------------------- bounds
\* Number of values of the node enum T.
NumNodes == 3

\* Number of threads that dereference the implication tables.
NumThreads == 2
\* Largest number of edges the client inserts into the graph it builds.
MaxEdges == 3
\* Largest number of edges of the second operand handed to union.
MaxOtherEdges == 1
\* Longest list of (from, to) pairs handed to from_iter / from_par_iter.
MaxPairs == 2
\* Largest number of times the parallel reduction splits off another worker.
MaxSplits == 1
\* Largest number of parent links of the node type handed to the ancestor
\* search, counted over all nodes.
MaxLinks == 3
\* Longest list of children handed to ancestors_and_self_multiple.
MaxChildren == 2
\* Largest minor and micro version number handed to ResourceVersion::new.
MaxVersion == 3
\* Largest number of direct superclass links of the class hierarchy handed
\* to is_subclass_of, counted over all classes.
MaxSuperLinks == 2

Nodes == 0 .. (NumNodes - 1)
Threads == 1 .. NumThreads
Pairs == Nodes \X Nodes

VARIABLES
    adj_sets,   \* the graph the client owns: EnumMap<T, EnumSet<T>>
    op,         \* name of the operation last called (or running)
    from,       \* `from` argument of the last call: a node, or a set of
                \* nodes for reachable_nodes_from_multi
    to,         \* `to` argument of the last call
    other,      \* `other` argument of the last union call
    output,     \* graph returned by the last graph-valued call
    ret,        \* value returned by the last call that returns neither a
                \* graph nor the visited set: a boolean (has_edge, has_path),
                \* a set of nodes (adjacent_nodes, reachable_nodes_from_multi),
                \* an Ordering (cmp)
    visited,    \* reachable_nodes: the visited set (its return value)
    stack,      \* reachable_nodes: the DFS stack, top at the end
    pc,         \* "idle", "reach" (inside the DFS loop), "par" (inside reduce),
                \* "done" (the call returned), "panic" (the call panicked)
    iter,       \* the list of pairs last handed to from_iter
    pending,    \* from_par_iter: indices of iter not yet mapped by a worker
    parts,      \* from_par_iter: bag of partial graphs waiting to be reduced
    splits,     \* from_par_iter: number of extra workers split off so far
    once,       \* per table: the state of its std::sync::Once
    cell,       \* per table: the Option the lazy cell holds
    runs,       \* per table: how often its initialiser body has been entered
    tpc,        \* per thread: where it is in the dereference of a table
    tbl,        \* per thread: the table it dereferences
    local,      \* per thread: the value its initialiser body has built so far
    todo,       \* per thread: what its initialiser body has left of its list
    seen,       \* per thread: what the dereference gave it
    parents,    \* the node type of graph/mod.rs: for every node the Vec its
                \* parents() returns
    hpc,        \* "idle", "anc" (inside the loop of ancestors_and_self),
                \* "done" (the call returned)
    hop,        \* name of the operation of the node type last called
    hself,      \* the node the operation was called on
    children,   \* the list handed to ancestors_and_self_multiple
    anc_output, \* ancestors_and_self: `output`
    anc_visited,    \* ancestors_and_self: `visited`
    next_parents,   \* ancestors_and_self: `next_parents`
    hret,       \* the set the last call on the node type returned
    superclasses,   \* the class hierarchy of subclasses/mod.rs: for every
                \* class the list its direct_superclasses() yields
    cpc,        \* "idle", "sub" (inside the loop of is_subclass_of), "done"
    cself,      \* the class is_subclass_of was called on
    cother,     \* the parameter `other` of is_subclass_of
    sub_visited,    \* is_subclass_of: `visited`
    remaining,  \* is_subclass_of: `remaining`, top at the end
    cret,       \* what is_subclass_of returned
    implied,    \* the plugin-type implication graph as built so far (an
                \* Option)
    implied_rest,   \* what is left of the list of direct implications
    bpc,        \* "none", "loop" (the graph is being built), "built"
    std_call,   \* the call last made on the standard types: "none",
                \* "plugin" (has_edge and is_subclass_of on a plugin type),
                \* "atom" (is_subclass_of on an atom type)
    std_self,   \* the type the call was made on: a StdAtomType, or a pair
                \* of a PluginType and its StdPluginType
    std_other,  \* the other type of the call, in the same form
    std_edge,   \* what has_edge returned
    std_sub,    \* what is_subclass_of returned
    version,    \* the ResourceVersion the client holds
    vcall,      \* the method last called on it: "new", "is_pre_release",
                \* "is_dev_release"
    vret,       \* what the method returned
    literal,    \* what the last constructor of Literal returned, as an
                \* Option (new and with_lang_tag always give Some)
    lcall,      \* the constructor last called: "none", "new",
                \* "with_lang_tag", "with_data_type"
    requested,  \* the data type handed to with_data_type
    marks,      \* per node, how often reachable_nodes ran
                \* visited.insert(node) in the call being counted
    pushes,     \* per node, how often it ran the `for next in ...` loop
                \* that pushes the node's successors
    pops        \* how often it ran stack.pop()

\* The state of the lazily initialised tables and of the threads using them.
lazy_vars == <<once, cell, runs, tpc, tbl, local, todo, seen>>

\* The state of the client of one graph.
graph_vars == <<adj_sets, op, from, to, other, output, ret, visited, stack,
                pc, iter, pending, parts, splits>>

\* The state of the client of the ancestor search of graph/mod.rs.
hier_vars == <<parents, hpc, hop, hself, children, anc_output, anc_visited,
               next_parents, hret>>

\* The state of the client of the class hierarchy of subclasses/mod.rs.
class_vars == <<superclasses, cpc, cself, cother, sub_visited, remaining,
                cret>>

\* The state of the client of the standard plugin and atom types.
std_vars == <<implied, implied_rest, bpc, std_call, std_self, std_other,
              std_edge, std_sub>>

\* The state of the client of ResourceVersion and of Literal.
value_vars == <<version, vcall, vret, literal, lcall, requested>>

\* The counts kept of one call of reachable_nodes.
count_vars == <<marks, pushes, pops>>

\* The variables an action on one part of the state leaves alone; a counted
\* call of reachable_nodes acts on the graph's state and on the counts.
not_graph_vars == <<count_vars, lazy_vars, hier_vars, class_vars, std_vars,
                    value_vars>>
not_lazy_vars == <<count_vars, graph_vars, hier_vars, class_vars, std_vars,
                   value_vars>>
not_hier_vars == <<count_vars, graph_vars, lazy_vars, class_vars, std_vars,
                   value_vars>>
not_class_vars == <<count_vars, graph_vars, lazy_vars, hier_vars, std_vars,
                    value_vars>>
not_std_vars == <<graph_vars, lazy_vars, hier_vars, class_vars, value_vars,
                  count_vars>>
not_value_vars == <<graph_vars, lazy_vars, hier_vars, class_vars, std_vars,
                    count_vars>>
not_count_vars == <<lazy_vars, hier_vars, class_vars, std_vars, value_vars>>

vars == <<adj_sets, op, from, to, other, output, ret, visited, stack, pc,
          iter, pending, parts, splits,
          once, cell, runs, tpc, tbl, local, todo, seen,
          parents, hpc, hop, hself, children, anc_output, anc_visited,
          next_parents, hret,
          superclasses, cpc, cself, cother, sub_visited, remaining, cret,
          implied, implied_rest, bpc, std_call, std_self, std_other,
          std_edge, std_sub,
          version, vcall, vret, literal, lcall, requested,
          marks, pushes, pops>>

\* ------------------------------------------------------------ the type
\* Iteration order of an EnumSet: ascending enum ordinal.
RECURSIVE set_iter(_)
set_iter(S) ==
    IF S = {} THEN << >>
    ELSE LET m == CHOOSE x \in S : \A y \in S : x <= y
         IN  <<m>> \o set_iter(S \ {m})

\* EnumSetDiGraph::new
new == [node \in Nodes |-> {}]

\* EnumSetDiGraph::has_edge
has_edge(self, src, dst) == dst \in self[src]

\* EnumSetDiGraph::adjacent_nodes
adjacent_nodes(self, src) == self[src]

\* Mutant of dfs_init: the stack starts from the successors of the start
\* node instead of the start node itself.
dfs_init_successors(self, src) ==
    [visited |-> {}, stack |-> set_iter(self[src])]

\* reachable_nodes before its loop: `visited` is empty, `stack` is vec![from].
dfs_init(self, src) == [visited |-> {}, stack |-> <<src>>]

\* Mutant of dfs_step: the successors are marked visited as they are pushed,
\* so that they are never expanded when they are popped.
dfs_step_marks_pushed(self, vis, stk) ==
    LET neighbor == stk[Len(stk)]
        popped   == SubSeq(stk, 1, Len(stk) - 1)
    IN  IF neighbor \notin vis
        THEN [visited |-> vis \cup {neighbor} \cup self[neighbor],
              stack   |-> popped \o set_iter(self[neighbor])]
        ELSE [visited |-> vis, stack |-> popped]

\* Mutant of dfs_step: the top of the stack is read but only removed when it
\* is expanded (last() in place of pop()).
dfs_step_keeps_top(self, vis, stk) ==
    LET neighbor == stk[Len(stk)]
        popped   == SubSeq(stk, 1, Len(stk) - 1)
    IN  IF neighbor \notin vis
        THEN [visited |-> vis \cup {neighbor},
              stack   |-> popped \o set_iter(self[neighbor])]
        ELSE [visited |-> vis, stack |-> stk]

\* Mutant of dfs_step: the `for next in ...` loop is left after its first
\* round, so only the first successor is pushed.
dfs_step_first_only(self, vis, stk) ==
    LET neighbor == stk[Len(stk)]
        popped   == SubSeq(stk, 1, Len(stk) - 1)
        nexts    == set_iter(self[neighbor])
    IN  IF neighbor \notin vis
        THEN [visited |-> vis \cup {neighbor},
              stack   |-> popped \o (IF nexts = << >> THEN << >>
                                      ELSE <<Head(nexts)>>)]
        ELSE [visited |-> vis, stack |-> popped]

\* One iteration of the `while !stack.is_empty()` loop of reachable_nodes:
\* pop the top; if it is not visited, mark it and push its successors.
dfs_step(self, vis, stk) ==
    LET neighbor == stk[Len(stk)]
        popped   == SubSeq(stk, 1, Len(stk) - 1)
    IN  IF neighbor \notin vis
        THEN [visited |-> vis \cup {neighbor},
              stack   |-> popped \o set_iter(self[neighbor])]
        ELSE [visited |-> vis, stack |-> popped]

\* The loop of reachable_nodes, run to its end.
RECURSIVE dfs_loop(_, _, _)
dfs_loop(self, vis, stk) ==
    IF stk = << >> THEN vis
    ELSE LET s == dfs_step(self, vis, stk)
         IN  dfs_loop(self, s.visited, s.stack)

\* EnumSetDiGraph::reachable_nodes
reachable_nodes(self, src) ==
    LET s == dfs_init(self, src)
    IN  dfs_loop(self, s.visited, s.stack)

\* EnumSetDiGraph::has_path
has_path(self, src, dst) == dst \in reachable_nodes(self, src)

\* Mutant of from_multi_fold: the fold keeps the set of the last start node
\* in place of the union.
RECURSIVE from_multi_fold_keeps_last(_, _, _)
from_multi_fold_keeps_last(self, starts, set0) ==
    IF starts = << >> THEN set0
    ELSE from_multi_fold_keeps_last(self, Tail(starts),
                                    reachable_nodes(self, Head(starts)))

\* EnumSetDiGraph::reachable_nodes_from_multi: the fold over the start nodes,
\* from the accumulator set0.
RECURSIVE from_multi_fold(_, _, _)
from_multi_fold(self, starts, set0) ==
    IF starts = << >> THEN set0
    ELSE from_multi_fold(self, Tail(starts),
                         set0 \cup reachable_nodes(self, Head(starts)))

\* EnumSetDiGraph::reachable_nodes_from_multi
reachable_nodes_from_multi(self, srcs) ==
    from_multi_fold(self, set_iter(srcs), {})

\* Mutant of insert_edge: the adjacency set of `from` is assigned instead of
\* inserted into.
insert_edge_assigns(self, src, dst) == [self EXCEPT ![src] = {dst}]

\* EnumSetDiGraph::insert_edge
insert_edge(self, src, dst) == [self EXCEPT ![src] = @ \cup {dst}]

\* EnumSetDiGraph::transitive_closure: the loop over EnumSet::all(), from
\* the k-th node on, writing into out.
RECURSIVE closure_loop(_, _, _)
closure_loop(self, out, k) ==
    IF k = NumNodes THEN out
    ELSE closure_loop(self, [out EXCEPT ![k] = reachable_nodes(self, k)], k + 1)

\* Mutant of transitive_closure: each node gets itself and its direct
\* successors, not the nodes further away.
transitive_closure_one_edge(self) ==
    [node \in Nodes |-> {node} \cup self[node]]

transitive_closure(self) == closure_loop(self, new, 0)

\* Mutant of reverse_inner: the edge is inserted in its old direction.
RECURSIVE reverse_inner_not_swapped(_, _, _)
reverse_inner_not_swapped(out, src, tos) ==
    IF tos = << >> THEN out
    ELSE reverse_inner_not_swapped(insert_edge(out, src, Head(tos)), src,
                                   Tail(tos))

\* Mutant of reverse_inner: self-loops are skipped.
RECURSIVE reverse_inner_no_loops(_, _, _)
reverse_inner_no_loops(out, src, tos) ==
    IF tos = << >> THEN out
    ELSE reverse_inner_no_loops(
             IF Head(tos) = src THEN out ELSE insert_edge(out, Head(tos), src),
             src, Tail(tos))

\* EnumSetDiGraph::reverse: the inner loop over the successors tos of src.
RECURSIVE reverse_inner(_, _, _)
reverse_inner(out, src, tos) ==
    IF tos = << >> THEN out
    ELSE reverse_inner(insert_edge(out, Head(tos), src), src, Tail(tos))

\* EnumSetDiGraph::reverse: the outer loop over EnumSet::all().
RECURSIVE reverse_loop(_, _, _)
reverse_loop(self, out, k) ==
    IF k = NumNodes THEN out
    ELSE reverse_loop(self, reverse_inner(out, k, set_iter(self[k])), k + 1)

\* Mutant of reverse: the map returned has an entry only for the nodes that
\* have successors.
reverse_sparse(self) ==
    LET out == reverse_loop(self, new, 0)
    IN  [node \in {n \in Nodes : out[n] # {}} |-> out[node]]

reverse(self) == reverse_loop(self, new, 0)

\* Mutant of union_loop: self is read on both sides of the set union.
RECURSIVE union_loop_self_twice(_, _, _, _)
union_loop_self_twice(self, rhs, out, k) ==
    IF k = NumNodes THEN out
    ELSE union_loop_self_twice(self, rhs,
                               [out EXCEPT ![k] = self[k] \cup self[k]], k + 1)

\* Mutant of union_loop: a node whose adjacency set in self is empty is
\* skipped.
RECURSIVE union_loop_skips_empty(_, _, _, _)
union_loop_skips_empty(self, rhs, out, k) ==
    IF k = NumNodes THEN out
    ELSE union_loop_skips_empty(self, rhs,
             IF self[k] = {} THEN out
             ELSE [out EXCEPT ![k] = self[k] \cup rhs[k]], k + 1)

\* Mutant of union_loop: other is read on both sides of the set union.
RECURSIVE union_loop_other_twice(_, _, _, _)
union_loop_other_twice(self, rhs, out, k) ==
    IF k = NumNodes THEN out
    ELSE union_loop_other_twice(self, rhs,
                                [out EXCEPT ![k] = rhs[k] \cup rhs[k]], k + 1)

\* EnumSetDiGraph::union: the loop over output.adj_sets.iter_mut().
RECURSIVE union_loop(_, _, _, _)
union_loop(self, rhs, out, k) ==
    IF k = NumNodes THEN out
    ELSE union_loop(self, rhs, [out EXCEPT ![k] = self[k] \cup rhs[k]], k + 1)

union(self, rhs) == union_loop(self, rhs, new, 0)

\* PartialEq for EnumSetDiGraph (derived): the adjacency maps are equal,
\* entry by entry.
eq(self, rhs) == \A node \in Nodes : self[node] = rhs[node]

\* The bits of an EnumSet: bit n is set when the value of ordinal n is in.
RECURSIVE set_bits(_)
set_bits(S) ==
    IF S = {} THEN 0
    ELSE LET n == CHOOSE x \in S : TRUE
         IN  2 ^ n + set_bits(S \ {n})

\* Ord for EnumSet: the order of the bit sets as unsigned integers.
set_cmp(a, b) ==
    IF set_bits(a) < set_bits(b) THEN "Less"
    ELSE IF set_bits(a) > set_bits(b) THEN "Greater"
    ELSE "Equal"

\* Ord::cmp for EnumSetDiGraph: the loop over node_id in 0..POSSIBLE_VALUES.
RECURSIVE cmp_loop(_, _, _)
cmp_loop(self, rhs, node_id) ==
    IF node_id >= NumNodes THEN "Equal"
    ELSE LET node_order == set_cmp(self[node_id], rhs[node_id])
         IN  IF node_order # "Equal" THEN node_order
             ELSE cmp_loop(self, rhs, node_id + 1)

\* Mutant of cmp: the loop starts at node 1.
cmp_skips_first(self, rhs) == cmp_loop(self, rhs, 1)

\* Ord::cmp for EnumSetDiGraph
cmp(self, rhs) == cmp_loop(self, rhs, 0)

\* Mutant of from_iter_loop: the output graph is created anew in every round
\* of the loop, so only the last pair is kept.
RECURSIVE from_iter_loop_last_only(_, _)
from_iter_loop_last_only(out, pairs) ==
    IF pairs = << >> THEN out
    ELSE from_iter_loop_last_only(
             insert_edge(new, Head(pairs)[1], Head(pairs)[2]), Tail(pairs))

\* FromIterator<(T, T)>::from_iter: the loop over the pairs.
RECURSIVE from_iter_loop(_, _)
from_iter_loop(out, pairs) ==
    IF pairs = << >> THEN out
    ELSE from_iter_loop(insert_edge(out, Head(pairs)[1], Head(pairs)[2]),
                        Tail(pairs))

from_iter(pairs) == from_iter_loop(new, pairs)

\* ---------------------------------------------- the implication tables
\* The variants of PluginType, in declaration order.
PluginTypeVariants ==
    <<"Delay", "Reverb", "Distortion", "Waveshaper", "Dynamics",
      "Amplifier", "Compressor", "Envelope", "Expander", "Gate", "Limiter",
      "Filter", "Allpass", "Bandpass", "Comb", "EQ", "MultiEQ", "ParaEQ",
      "Highpass", "Lowpass", "Generator", "Constant", "Instrument",
      "Oscillator", "Midi", "Modulator", "Chorus", "Flanger", "Phaser",
      "Simulator", "Spatial", "Spectral", "Pitch", "Utility", "Analyser",
      "Converter", "Function", "Mixer">>

\* The variants of PortDesignation, in declaration order.
PortDesignationVariants ==
    <<"Amplitude", "Attack", "Bypass", "CutoffFrequency", "Decay", "Delay",
      "DryLevel", "Frequency", "Gain", "Hold", "PulseWidth",
      "CompressionRatio", "Release", "Resonance", "SampleRate", "Sustain",
      "CompressionThreshold", "Waveform", "WetDryRatio", "WetLevel">>

\* The variants of Unit, in declaration order.
UnitVariants ==
    <<"Bar", "Beat", "Bpm", "Cent", "Centimeter", "Coefficient", "Decibel",
      "Degree", "AudioFrame", "Hertz", "Inch", "Kilohertz", "Kilometer",
      "Meter", "Megahertz", "MidiNote", "Mile", "Minute", "Millimeter",
      "Millisecond", "Octave", "Percent", "Second", "Semitone12Tet">>

\* The ordinal of a variant of an enum: its place in the declaration, from 0.
to_usize(variants, name) ==
    (CHOOSE i \in 1 .. Len(variants) : variants[i] = name) - 1

\* T::POSSIBLE_VALUES for PluginType, and the ordinals of its variants.
NumPluginTypes == Len(PluginTypeVariants)
PluginTypes == 0 .. (NumPluginTypes - 1)
PortDesignations == 0 .. (Len(PortDesignationVariants) - 1)

Delay == to_usize(PluginTypeVariants, "Delay")
Reverb == to_usize(PluginTypeVariants, "Reverb")
Simulator == to_usize(PluginTypeVariants, "Simulator")
Filter == to_usize(PluginTypeVariants, "Filter")
EQ == to_usize(PluginTypeVariants, "EQ")
MultiEQ == to_usize(PluginTypeVariants, "MultiEQ")
Gain == to_usize(PortDesignationVariants, "Gain")
Decibel == to_usize(UnitVariants, "Decibel")

\* Option<T>
None == [some |-> FALSE]
Some(v) == [some |-> TRUE, value |-> v]

\* The list of pairs of variants as a list of pairs of ordinals.
as_ordinals(pairs) ==
    [i \in 1 .. Len(pairs) |->
        <<to_usize(PluginTypeVariants, pairs[i][1]),
          to_usize(PluginTypeVariants, pairs[i][2])>>]

\* Mutant of direct_implications: the first pair is written the other way
\* round.
direct_implications_first_swapped ==
    as_ordinals(
    <<<<"Delay", "Reverb">>,
       <<"Reverb", "Simulator">>,
       <<"Waveshaper", "Distortion">>,
       <<"Amplifier", "Dynamics">>,
       <<"Compressor", "Dynamics">>,
       <<"Envelope", "Dynamics">>,
       <<"Expander", "Dynamics">>,
       <<"Gate", "Dynamics">>,
       <<"Limiter", "Dynamics">>,
       <<"Allpass", "Filter">>,
       <<"Bandpass", "Filter">>,
       <<"Comb", "Filter">>,
       <<"EQ", "Filter">>,
       <<"MultiEQ", "Filter">>,
       <<"ParaEQ", "Filter">>,
       <<"Highpass", "Filter">>,
       <<"Lowpass", "Filter">>,
       <<"MultiEQ", "EQ">>,
       <<"ParaEQ", "EQ">>,
       <<"Constant", "Generator">>,
       <<"Instrument", "Generator">>,
       <<"Oscillator", "Generator">>,
       <<"Chorus", "Modulator">>,
       <<"Flanger", "Modulator">>,
       <<"Phaser", "Modulator">>,
       <<"Pitch", "Spectral">>,
       <<"Analyser", "Utility">>,
       <<"Converter", "Utility">>,
       <<"Function", "Utility">>,
       <<"Mixer", "Utility">>>>)

\* PLUGIN_TYPES_IMPLIED: the vec! of direct implications.
direct_implications ==
    as_ordinals(
    <<<<"Reverb", "Delay">>,
       <<"Reverb", "Simulator">>,
       <<"Waveshaper", "Distortion">>,
       <<"Amplifier", "Dynamics">>,
       <<"Compressor", "Dynamics">>,
       <<"Envelope", "Dynamics">>,
       <<"Expander", "Dynamics">>,
       <<"Gate", "Dynamics">>,
       <<"Limiter", "Dynamics">>,
       <<"Allpass", "Filter">>,
       <<"Bandpass", "Filter">>,
       <<"Comb", "Filter">>,
       <<"EQ", "Filter">>,
       <<"MultiEQ", "Filter">>,
       <<"ParaEQ", "Filter">>,
       <<"Highpass", "Filter">>,
       <<"Lowpass", "Filter">>,
       <<"MultiEQ", "EQ">>,
       <<"ParaEQ", "EQ">>,
       <<"Constant", "Generator">>,
       <<"Instrument", "Generator">>,
       <<"Oscillator", "Generator">>,
       <<"Chorus", "Modulator">>,
       <<"Flanger", "Modulator">>,
       <<"Phaser", "Modulator">>,
       <<"Pitch", "Spectral">>,
       <<"Analyser", "Utility">>,
       <<"Converter", "Utility">>,
       <<"Function", "Utility">>,
       <<"Mixer", "Utility">>>>)

\* EnumSetDiGraph::<PluginType>::new
new_PluginType == [node \in PluginTypes |-> {}]

\* EnumSetDiGraph::<PluginType>::union: the loop over EnumSet::all().
RECURSIVE union_loop_PluginType(_, _, _, _)
union_loop_PluginType(self, rhs, out, k) ==
    IF k = NumPluginTypes THEN out
    ELSE union_loop_PluginType(self, rhs,
                               [out EXCEPT ![k] = self[k] \cup rhs[k]], k + 1)

union_PluginType(self, rhs) ==
    union_loop_PluginType(self, rhs, new_PluginType, 0)

\* EnumSetDiGraph::<PluginType>::from_iter on iter::once(pair)
from_iter_once_PluginType(pair) ==
    insert_edge(new_PluginType, pair[1], pair[2])

\* EnumSetDiGraph::<PluginType>::from_par_iter: one round of the reduction
\* with union, which takes in the single-pair graph of the next pair.
reduce_step_PluginType(acc, pair) ==
    union_PluginType(acc, from_iter_once_PluginType(pair))

\* EnumSetDiGraph::<PluginType>::transitive_closure: the loop over
\* EnumSet::all().
RECURSIVE closure_loop_PluginType(_, _, _)
closure_loop_PluginType(self, out, k) ==
    IF k = NumPluginTypes THEN out
    ELSE closure_loop_PluginType(
             self, [out EXCEPT ![k] = reachable_nodes(self, k)], k + 1)

\* Mutant of transitive_closure_PluginType: the graph of the direct
\* implications is stored as it is.
transitive_closure_PluginType_left_out(self) == self

transitive_closure_PluginType(self) ==
    closure_loop_PluginType(self, new_PluginType, 0)

\* UNITS_IMPLIED_BY_DESIGNATIONS: the vec! of implications.
implications == <<<<Gain, Decibel>>>>

\* EnumMap::from(|_| None)
units_none == [designation \in PortDesignations |-> None]

\* output.extend(...): one (designation, unit) is stored as Some(unit).
units_extend_step(out, pair) == [out EXCEPT ![pair[1]] = Some(pair[2])]

\* The tables of the lazy_static! block.
Tables == {"PLUGIN_TYPES_IMPLIED", "UNITS_IMPLIED_BY_DESIGNATIONS"}

\* The initialiser body of a table: the list it goes through,
init_input(table) ==
    IF table = "PLUGIN_TYPES_IMPLIED" THEN direct_implications
    ELSE implications

\* the value it starts from (the identity of the reduction; the map of None),
init_start(table) ==
    IF table = "PLUGIN_TYPES_IMPLIED" THEN new_PluginType ELSE units_none

\* what it does with one element of the list,
init_step(table, built, pair) ==
    IF table = "PLUGIN_TYPES_IMPLIED" THEN reduce_step_PluginType(built, pair)
    ELSE units_extend_step(built, pair)

\* and what it returns when the list is used up.
init_end(table, built) ==
    IF table = "PLUGIN_TYPES_IMPLIED" THEN transitive_closure_PluginType(built)
    ELSE built

\* ------------------------------------------------- the ancestor search
\* The elements of a list.
Range(f) == {f[i] : i \in DOMAIN f}

\* ancestors_and_self before its loop.  P gives for every node the list its
\* parents() returns.
anc_init(P, node) ==
    [output |-> {node}, visited |-> {}, next_parents |-> P[node]]

\* Mutant of anc_for_loop: the parent is not inserted into visited.
RECURSIVE anc_for_loop_never_marks(_, _, _, _)
anc_for_loop_never_marks(P, vis, next_next_parents, rest) ==
    IF rest = << >>
    THEN [visited |-> vis, next_next_parents |-> next_next_parents]
    ELSE LET parent == Head(rest)
         IN  IF parent \notin vis
             THEN anc_for_loop_never_marks(P, vis,
                                           next_next_parents \o P[parent],
                                           Tail(rest))
             ELSE anc_for_loop_never_marks(P, vis, next_next_parents,
                                           Tail(rest))

\* The `for parent in next_parents` loop: a parent that is not visited has
\* its parents appended to next_next_parents and is marked visited.
RECURSIVE anc_for_loop(_, _, _, _)
anc_for_loop(P, vis, next_next_parents, rest) ==
    IF rest = << >>
    THEN [visited |-> vis, next_next_parents |-> next_next_parents]
    ELSE LET parent == Head(rest)
         IN  IF parent \notin vis
             THEN anc_for_loop(P, vis \cup {parent},
                               next_next_parents \o P[parent], Tail(rest))
             ELSE anc_for_loop(P, vis, next_next_parents, Tail(rest))

\* Mutant of anc_step: output is extended with next_next_parents in place of
\* next_parents.
anc_step_extends_next_next(P, s) ==
    LET r == anc_for_loop(P, s.visited, << >>, s.next_parents)
    IN  [output       |-> s.output \cup Range(r.next_next_parents),
         visited      |-> r.visited,
         next_parents |-> r.next_next_parents]

\* One iteration of the `while !next_parents.is_empty()` loop.
anc_step(P, s) ==
    LET r == anc_for_loop(P, s.visited, << >>, s.next_parents)
    IN  [output       |-> s.output \cup Range(s.next_parents),
         visited      |-> r.visited,
         next_parents |-> r.next_next_parents]

\* The loop of ancestors_and_self, run to its end.
RECURSIVE anc_loop(_, _)
anc_loop(P, s) ==
    IF s.next_parents = << >> THEN s.output
    ELSE anc_loop(P, anc_step(P, s))

\* ParentFindingDigraphNode::ancestors_and_self
ancestors_and_self(P, node) == anc_loop(P, anc_init(P, node))

\* Mutant of anc_multiple_loop: output is assigned the set of the child in
\* place of being extended with it.
RECURSIVE anc_multiple_loop_keeps_last(_, _, _)
anc_multiple_loop_keeps_last(P, out, rest) ==
    IF rest = << >> THEN out
    ELSE anc_multiple_loop_keeps_last(P, ancestors_and_self(P, Head(rest)),
                                      Tail(rest))

\* ParentFindingDigraphNode::ancestors_and_self_multiple: the loop over the
\* children.
RECURSIVE anc_multiple_loop(_, _, _)
anc_multiple_loop(P, out, rest) ==
    IF rest = << >> THEN out
    ELSE anc_multiple_loop(P, out \cup ancestors_and_self(P, Head(rest)),
                           Tail(rest))

\* ParentFindingDigraphNode::ancestors_and_self_multiple
ancestors_and_self_multiple(P, nodes) == anc_multiple_loop(P, {}, nodes)

\* The number of parent links of a node type.
RECURSIVE LinksFrom(_, _)
LinksFrom(P, k) == IF k = NumNodes THEN 0 ELSE Len(P[k]) + LinksFrom(P, k + 1)

\* The lists handed to ancestors_and_self_multiple as `children`.
ChildLists == UNION {[1 .. n -> Nodes] : n \in 0 .. MaxChildren}

\* ------------------------------------------------ the class hierarchy
\* Mutant of sub_init: the search starts from the direct superclasses of the
\* class in place of the class itself.
sub_init_superclasses(D, class) == [visited |-> {}, remaining |-> D[class]]

\* is_subclass_of before its loop.  D gives for every class the list its
\* direct_superclasses() yields.
sub_init(D, class) == [visited |-> {}, remaining |-> <<class>>]

\* One iteration of `while let Some(next) = remaining.pop()` for a
\* remaining that is not empty: found tells that `return true` was taken.
sub_step(D, target, s) ==
    LET next   == s.remaining[Len(s.remaining)]
        popped == SubSeq(s.remaining, 1, Len(s.remaining) - 1)
    IN  IF target = next
        THEN [visited |-> s.visited, remaining |-> popped, found |-> TRUE]
        ELSE IF next \notin s.visited
        THEN [visited   |-> s.visited \cup {next},
              remaining |-> popped \o D[next],
              found     |-> FALSE]
        ELSE [visited |-> s.visited, remaining |-> popped, found |-> FALSE]

\* The loop of is_subclass_of, run to its end.
RECURSIVE sub_loop(_, _, _)
sub_loop(D, target, s) ==
    IF s.remaining = << >> THEN FALSE
    ELSE LET t == sub_step(D, target, s)
         IN  IF t.found THEN TRUE ELSE sub_loop(D, target, t)

\* ClassInHierarchy::is_subclass_of
is_subclass_of(D, class, target) == sub_loop(D, target, sub_init(D, class))

\* ClassInHierarchy::is_superclass_of
is_superclass_of(D, class, target) == is_subclass_of(D, target, class)

\* The number of direct superclass links of a class hierarchy.
RECURSIVE SuperLinksFrom(_, _)
SuperLinksFrom(D, k) ==
    IF k = NumNodes THEN 0 ELSE Len(D[k]) + SuperLinksFrom(D, k + 1)

\* ------------------------------------------ the standard class hierarchies
\* The variants of StdPluginType, in declaration order.
StdPluginTypeVariants ==
    <<"Plugin", "DelayPlugin", "ReverbPlugin", "DistortionPlugin",
      "WaveshaperPlugin", "DynamicsPlugin", "AmplifierPlugin",
      "CompressorPlugin", "EnvelopePlugin", "ExpanderPlugin", "GatePlugin",
      "LimiterPlugin", "FilterPlugin", "AllpassPlugin", "BandpassPlugin",
      "CombPlugin", "EQPlugin", "MultiEQPlugin", "ParaEQPlugin",
      "HighpassPlugin", "LowpassPlugin", "GeneratorPlugin",
      "ConstantPlugin", "InstrumentPlugin", "OscillatorPlugin",
      "ModulatorPlugin", "ChorusPlugin", "FlangerPlugin", "PhaserPlugin",
      "SimulatorPlugin", "SpatialPlugin", "SpectralPlugin", "PitchPlugin",
      "UtilityPlugin", "AnalyserPlugin", "ConverterPlugin",
      "FunctionPlugin", "MixerPlugin">>

\* The variants of StdAtomType, in declaration order.
StdAtomTypeVariants ==
    <<"Atom", "Bool", "Chunk", "Literal", "Number", "Double", "Float",
      "Int", "Long", "Object", "Property", "Sequence", "String", "Uri",
      "Path", "Tuple", "Urid", "Vector", "Sound", "MidiEvent",
      "MidiSystemMessage", "MidiSystemCommon", "MidiQuarterFrame",
      "MidiSongPosition", "MidiSongSelect", "MidiTuneRequest",
      "MidiSystemExclusive", "MidiSystemRealtime", "MidiActiveSense",
      "MidiClock", "MidiContinue", "MidiReset", "MidiStart", "MidiStop",
      "MidiVoiceMessage", "MidiAftertouch", "MidiBender",
      "MidiChannelPressure", "MidiController", "MidiNoteOff", "MidiNoteOn",
      "MidiProgramChange">>

StdPluginTypes == Range(StdPluginTypeVariants)
StdAtomTypes == Range(StdAtomTypeVariants)

\* Mutant of direct_superclasses_StdPluginType: the arm of MultiEQPlugin is
\* left out, so that the class falls to the last arm.
direct_superclasses_StdPluginType_no_MultiEQ(class) ==
    IF class = "MultiEQPlugin" THEN <<"Plugin">>
    ELSE IF class = "ReverbPlugin"
    THEN <<"Plugin", "DelayPlugin", "SimulatorPlugin">>
    ELSE IF class = "Plugin" THEN << >>
    ELSE IF class \in {"AmplifierPlugin", "CompressorPlugin", "EnvelopePlugin",
                       "ExpanderPlugin", "GatePlugin", "LimiterPlugin"}
    THEN <<"DynamicsPlugin">>
    ELSE IF class \in {"AllpassPlugin", "BandpassPlugin", "CombPlugin",
                       "EQPlugin", "HighpassPlugin", "LowpassPlugin"}
    THEN <<"FilterPlugin">>
    ELSE IF class = "ParaEQPlugin" THEN <<"EQPlugin">>
    ELSE IF class = "WaveshaperPlugin" THEN <<"DistortionPlugin">>
    ELSE IF class \in {"ConstantPlugin", "InstrumentPlugin", "OscillatorPlugin"}
    THEN <<"GeneratorPlugin">>
    ELSE IF class \in {"ChorusPlugin", "FlangerPlugin", "PhaserPlugin"}
    THEN <<"ModulatorPlugin">>
    ELSE IF class = "PitchPlugin" THEN <<"SpectralPlugin">>
    ELSE IF class \in {"AnalyserPlugin", "ConverterPlugin", "FunctionPlugin",
                       "MixerPlugin"}
    THEN <<"UtilityPlugin">>
    ELSE <<"Plugin">>

\* ClassInHierarchy for StdPluginType: direct_superclasses
direct_superclasses_StdPluginType(class) ==
    CASE class = "Plugin" -> <<>>
      [] class = "ReverbPlugin" -> <<"Plugin", "DelayPlugin", "SimulatorPlugin">>
      [] class = "WaveshaperPlugin" -> <<"DistortionPlugin">>
      [] class = "AmplifierPlugin" -> <<"DynamicsPlugin">>
      [] class = "CompressorPlugin" -> <<"DynamicsPlugin">>
      [] class = "EnvelopePlugin" -> <<"DynamicsPlugin">>
      [] class = "ExpanderPlugin" -> <<"DynamicsPlugin">>
      [] class = "GatePlugin" -> <<"DynamicsPlugin">>
      [] class = "LimiterPlugin" -> <<"DynamicsPlugin">>
      [] class = "AllpassPlugin" -> <<"FilterPlugin">>
      [] class = "BandpassPlugin" -> <<"FilterPlugin">>
      [] class = "CombPlugin" -> <<"FilterPlugin">>
      [] class = "EQPlugin" -> <<"FilterPlugin">>
      [] class = "MultiEQPlugin" -> <<"EQPlugin">>
      [] class = "ParaEQPlugin" -> <<"EQPlugin">>
      [] class = "HighpassPlugin" -> <<"FilterPlugin">>
      [] class = "LowpassPlugin" -> <<"FilterPlugin">>
      [] class = "ConstantPlugin" -> <<"GeneratorPlugin">>
      [] class = "InstrumentPlugin" -> <<"GeneratorPlugin">>
      [] class = "OscillatorPlugin" -> <<"GeneratorPlugin">>
      [] class = "ChorusPlugin" -> <<"ModulatorPlugin">>
      [] class = "FlangerPlugin" -> <<"ModulatorPlugin">>
      [] class = "PhaserPlugin" -> <<"ModulatorPlugin">>
      [] class = "PitchPlugin" -> <<"SpectralPlugin">>
      [] class = "AnalyserPlugin" -> <<"UtilityPlugin">>
      [] class = "ConverterPlugin" -> <<"UtilityPlugin">>
      [] class = "FunctionPlugin" -> <<"UtilityPlugin">>
      [] class = "MixerPlugin" -> <<"UtilityPlugin">>
      [] OTHER -> <<"Plugin">>

\* Mutant of direct_superclasses_StdAtomType: the arm of MidiVoiceMessage is
\* left out, so that the class falls to the last arm.
direct_superclasses_StdAtomType_no_voice(class) ==
    IF class = "Atom" THEN << >>
    ELSE IF class \in {"Double", "Float", "Int", "Long"} THEN <<"Number">>
    ELSE IF class = "Uri" THEN <<"String">>
    ELSE IF class = "Path" THEN <<"Uri">>
    ELSE IF class = "Sound" THEN <<"Vector">>
    ELSE IF class = "MidiSystemMessage" THEN <<"MidiEvent">>
    ELSE IF class \in {"MidiSystemCommon", "MidiSystemExclusive",
                       "MidiSystemRealtime"}
    THEN <<"MidiSystemMessage">>
    ELSE IF class \in {"MidiQuarterFrame", "MidiSongPosition", "MidiSongSelect",
                       "MidiTuneRequest"}
    THEN <<"MidiSystemCommon">>
    ELSE IF class \in {"MidiActiveSense", "MidiClock", "MidiContinue",
                       "MidiReset", "MidiStart", "MidiStop"}
    THEN <<"MidiSystemRealtime">>
    ELSE IF class \in {"MidiAftertouch", "MidiBender", "MidiChannelPressure",
                       "MidiController", "MidiNoteOff", "MidiNoteOn",
                       "MidiProgramChange"}
    THEN <<"MidiVoiceMessage">>
    ELSE <<"Atom">>

\* ClassInHierarchy for StdAtomType: direct_superclasses
direct_superclasses_StdAtomType(class) ==
    CASE class = "Atom" -> <<>>
      [] class = "Double" -> <<"Number">>
      [] class = "Float" -> <<"Number">>
      [] class = "Int" -> <<"Number">>
      [] class = "Long" -> <<"Number">>
      [] class = "Uri" -> <<"String">>
      [] class = "Path" -> <<"Uri">>
      [] class = "Sound" -> <<"Vector">>
      [] class = "MidiSystemMessage" -> <<"MidiEvent">>
      [] class = "MidiSystemCommon" -> <<"MidiSystemMessage">>
      [] class = "MidiQuarterFrame" -> <<"MidiSystemCommon">>
      [] class = "MidiSongPosition" -> <<"MidiSystemCommon">>
      [] class = "MidiSongSelect" -> <<"MidiSystemCommon">>
      [] class = "MidiTuneRequest" -> <<"MidiSystemCommon">>
      [] class = "MidiSystemExclusive" -> <<"MidiSystemMessage">>
      [] class = "MidiSystemRealtime" -> <<"MidiSystemMessage">>
      [] class = "MidiActiveSense" -> <<"MidiSystemRealtime">>
      [] class = "MidiClock" -> <<"MidiSystemRealtime">>
      [] class = "MidiContinue" -> <<"MidiSystemRealtime">>
      [] class = "MidiReset" -> <<"MidiSystemRealtime">>
      [] class = "MidiStart" -> <<"MidiSystemRealtime">>
      [] class = "MidiStop" -> <<"MidiSystemRealtime">>
      [] class = "MidiVoiceMessage" -> <<"MidiEvent">>
      [] class = "MidiAftertouch" -> <<"MidiVoiceMessage">>
      [] class = "MidiBender" -> <<"MidiVoiceMessage">>
      [] class = "MidiChannelPressure" -> <<"MidiVoiceMessage">>
      [] class = "MidiController" -> <<"MidiVoiceMessage">>
      [] class = "MidiNoteOff" -> <<"MidiVoiceMessage">>
      [] class = "MidiNoteOn" -> <<"MidiVoiceMessage">>
      [] class = "MidiProgramChange" -> <<"MidiVoiceMessage">>
      [] OTHER -> <<"Atom">>

\* The two hierarchies as what is_subclass_of works on.
StdPluginHierarchy ==
    [class \in StdPluginTypes |-> direct_superclasses_StdPluginType(class)]
StdAtomHierarchy ==
    [class \in StdAtomTypes |-> direct_superclasses_StdAtomType(class)]

\* The plugin types that are both a PluginType and a StdPluginType, as
\* pairs of the two variants.
CommonPluginTypes ==
    {<<"Delay", "DelayPlugin">>,
     <<"Reverb", "ReverbPlugin">>,
     <<"Distortion", "DistortionPlugin">>,
     <<"Waveshaper", "WaveshaperPlugin">>,
     <<"Dynamics", "DynamicsPlugin">>,
     <<"Amplifier", "AmplifierPlugin">>,
     <<"Compressor", "CompressorPlugin">>,
     <<"Envelope", "EnvelopePlugin">>,
     <<"Expander", "ExpanderPlugin">>,
     <<"Gate", "GatePlugin">>,
     <<"Limiter", "LimiterPlugin">>,
     <<"Filter", "FilterPlugin">>,
     <<"Allpass", "AllpassPlugin">>,
     <<"Bandpass", "BandpassPlugin">>,
     <<"Comb", "CombPlugin">>,
     <<"EQ", "EQPlugin">>,
     <<"MultiEQ", "MultiEQPlugin">>,
     <<"ParaEQ", "ParaEQPlugin">>,
     <<"Highpass", "HighpassPlugin">>,
     <<"Lowpass", "LowpassPlugin">>,
     <<"Generator", "GeneratorPlugin">>,
     <<"Constant", "ConstantPlugin">>,
     <<"Instrument", "InstrumentPlugin">>,
     <<"Oscillator", "OscillatorPlugin">>,
     <<"Modulator", "ModulatorPlugin">>,
     <<"Chorus", "ChorusPlugin">>,
     <<"Flanger", "FlangerPlugin">>,
     <<"Phaser", "PhaserPlugin">>,
     <<"Simulator", "SimulatorPlugin">>,
     <<"Spatial", "SpatialPlugin">>,
     <<"Spectral", "SpectralPlugin">>,
     <<"Pitch", "PitchPlugin">>,
     <<"Utility", "UtilityPlugin">>,
     <<"Analyser", "AnalyserPlugin">>,
     <<"Converter", "ConverterPlugin">>,
     <<"Function", "FunctionPlugin">>,
     <<"Mixer", "MixerPlugin">>}

\* ------------------------------------------- reachable_nodes, counted
\* No statement of the loop has run yet.
no_counts == [n \in Nodes |-> 0]

\* Mutant of dfs_step_counted: the popped node is marked and its successors
\* are pushed without the test of `visited`.
dfs_step_counted_untested(self, vis, stk, m, p, k) ==
    LET neighbor == stk[Len(stk)]
        popped   == SubSeq(stk, 1, Len(stk) - 1)
    IN  [visited |-> vis \cup {neighbor},
         stack   |-> popped \o set_iter(self[neighbor]),
         marks   |-> [m EXCEPT ![neighbor] = @ + 1],
         pushes  |-> [p EXCEPT ![neighbor] = @ + 1],
         pops    |-> k + 1]

\* One iteration of the `while !stack.is_empty()` loop of reachable_nodes,
\* with a count of the statements it runs: stack.pop() always;
\* visited.insert(neighbor) and the `for next in ...` loop when neighbor is
\* not visited.
dfs_step_counted(self, vis, stk, m, p, k) ==
    LET neighbor == stk[Len(stk)]
        popped   == SubSeq(stk, 1, Len(stk) - 1)
    IN  IF neighbor \notin vis
        THEN [visited |-> vis \cup {neighbor},
              stack   |-> popped \o set_iter(self[neighbor]),
              marks   |-> [m EXCEPT ![neighbor] = @ + 1],
              pushes  |-> [p EXCEPT ![neighbor] = @ + 1],
              pops    |-> k + 1]
        ELSE [visited |-> vis, stack |-> popped,
              marks |-> m, pushes |-> p, pops |-> k + 1]

\* ------------------------------------------- ResourceVersion and Literal
\* ResourceVersion::new.  The version numbers are BigUint: natural numbers
\* without an upper end.
ResourceVersion_new(minor_version, micro_version) ==
    [minor_version |-> minor_version, micro_version |-> micro_version]

\* ResourceVersion::is_pre_release
is_pre_release(self) == self.minor_version = 0

\* ResourceVersion::is_dev_release
is_dev_release(self) ==
    self.minor_version % 2 = 1 \/ self.micro_version % 2 = 1

\* lang_tagged_literal_data_type
lang_tagged_literal_data_type ==
    "http://www.w3.org/1999/02/22-rdf-syntax-ns#langString"

\* non_lang_tagged_literal_default_data_type
non_lang_tagged_literal_default_data_type ==
    "http://www.w3.org/2001/XMLSchema#string"

\* Literal::new
Literal_new(value) ==
    [value     |-> value,
     data_type |-> non_lang_tagged_literal_default_data_type,
     lang_tag  |-> None]

\* Literal::with_lang_tag
with_lang_tag(value, lang_tag) ==
    [value     |-> value,
     data_type |-> lang_tagged_literal_data_type,
     lang_tag  |-> Some(lang_tag)]

\* Mutant of with_data_type: the data type is not compared with the one of
\* the language-tagged literals.
with_data_type_unchecked(value, data_type) ==
    Some([value |-> value, data_type |-> data_type, lang_tag |-> None])

\* Literal::with_data_type.  Two Iri are equal when their text is.
with_data_type(value, data_type) ==
    IF data_type = lang_tagged_literal_data_type
    THEN None
    ELSE Some([value |-> value, data_type |-> data_type, lang_tag |-> None])

\* The texts, data types and language tags handed to the constructors of
\* Literal.
LiteralValues == {"", "0", "0.0"}
DataTypes ==
    {lang_tagged_literal_data_type,
     non_lang_tagged_literal_default_data_type,
     "http://www.w3.org/2001/XMLSchema#double",
     "http://www.w3.org/1999/02/22-rdf-syntax-ns#langstring"}
LangTags == {"en", "en-US", "de"}

\* ------------------------------------------------------- model helpers
\* The edge set of a graph.
Edges(self) == {e \in Pairs : e[2] \in self[e[1]]}

\* The graph with a given edge set.
GraphOf(E) == [node \in Nodes |-> {e[2] : e \in {x \in E : x[1] = node}}]

\* The graphs with at most k edges.
GraphsUpTo(k) == {GraphOf(E) : E \in {S \in SUBSET Pairs : Cardinality(S) <= k}}

\* The lists of at most k pairs.
PairSeqs(k) == UNION {[1 .. n -> Pairs] : n \in 0 .. k}

\* The graphs handed to a call as its parameter `other`.
OtherGraphs == GraphsUpTo(MaxOtherEdges)

\* The lists handed to from_iter as its parameter `iter`.
PairLists == PairSeqs(MaxPairs)

\* ------------------------------------------------------------- actions
\* pc is "idle" between calls, "reach" inside the loop of reachable_nodes,
\* "par" inside the reduction of from_par_iter, and "done" when the last call
\* has returned and the client still holds its result.
Init ==
    /\ adj_sets = new
    /\ op = "none"
    /\ from = 0
    /\ to = 0
    /\ other = new
    /\ output = new
    /\ ret = FALSE
    /\ visited = {}
    /\ stack = << >>
    /\ pc = "idle"
    /\ iter = << >>
    /\ pending = {}
    /\ parts = EmptyBag
    /\ splits = 0
    /\ once = [table \in Tables |-> "INCOMPLETE"]
    /\ cell = [table \in Tables |-> None]
    /\ runs = [table \in Tables |-> 0]
    /\ tpc = [t \in Threads |-> "idle"]
    /\ tbl = [t \in Threads |-> "PLUGIN_TYPES_IMPLIED"]
    /\ local = [t \in Threads |-> None]
    /\ todo = [t \in Threads |-> << >>]
    /\ seen = [t \in Threads |-> None]
    /\ parents = [node \in Nodes |-> << >>]
    /\ hpc = "idle"
    /\ hop = "none"
    /\ hself = 0
    /\ children = << >>
    /\ anc_output = {}
    /\ anc_visited = {}
    /\ next_parents = << >>
    /\ hret = {}
    /\ superclasses = [class \in Nodes |-> << >>]
    /\ cpc = "idle"
    /\ cself = 0
    /\ cother = 0
    /\ sub_visited = {}
    /\ remaining = << >>
    /\ cret = FALSE
    /\ implied = None
    /\ implied_rest = << >>
    /\ bpc = "none"
    /\ std_call = "none"
    /\ std_self = "Atom"
    /\ std_other = "Atom"
    /\ std_edge = FALSE
    /\ std_sub = FALSE
    /\ version = ResourceVersion_new(0, 0)
    /\ vcall = "new"
    /\ vret = FALSE
    /\ literal = None
    /\ lcall = "none"
    /\ requested = non_lang_tagged_literal_default_data_type
    /\ marks = no_counts
    /\ pushes = no_counts
    /\ pops = 0

\* What a call that is not about these leaves behind.
NoArgs == from' = 0 /\ to' = 0 /\ other' = new
NoOutput == output' = new /\ ret' = FALSE
NoDfs == visited' = {} /\ stack' = << >>
NoPar == iter' = << >> /\ pending' = {} /\ parts' = EmptyBag /\ splits' = 0

\* g = EnumSetDiGraph::new()
New ==
    /\ pc = "idle"
    /\ adj_sets' = new
    /\ UNCHANGED <<op, from, to, other, output, ret, visited, stack, pc,
                   iter, pending, parts, splits>>
    /\ UNCHANGED not_graph_vars

\* g.insert_edge(from, to)
InsertEdge ==
    /\ pc = "idle"
    /\ \E src \in Nodes, dst \in Nodes :
          /\ Cardinality(Edges(insert_edge(adj_sets, src, dst))) <= MaxEdges
          /\ adj_sets' = insert_edge(adj_sets, src, dst)
          /\ from' = src /\ to' = dst
    /\ op' = "insert_edge"
    /\ pc' = "done"
    /\ UNCHANGED <<other, output, ret, visited, stack,
                   iter, pending, parts, splits>>
    /\ UNCHANGED not_graph_vars

\* g.has_edge(from, to)
HasEdge ==
    /\ pc = "idle"
    /\ \E src \in Nodes, dst \in Nodes :
          /\ ret' = has_edge(adj_sets, src, dst)
          /\ from' = src /\ to' = dst
    /\ op' = "has_edge"
    /\ pc' = "done"
    /\ UNCHANGED <<adj_sets, other, output, visited, stack,
                   iter, pending, parts, splits>>
    /\ UNCHANGED not_graph_vars

\* g.has_path(from, to)
HasPath ==
    /\ pc = "idle"
    /\ \E src \in Nodes, dst \in Nodes :
          /\ ret' = has_path(adj_sets, src, dst)
          /\ from' = src /\ to' = dst
    /\ op' = "has_path"
    /\ pc' = "done"
    /\ UNCHANGED <<adj_sets, other, output, visited, stack,
                   iter, pending, parts, splits>>
    /\ UNCHANGED not_graph_vars

\* g.adjacent_nodes(from)
AdjacentNodes ==
    /\ pc = "idle"
    /\ \E src \in Nodes :
          /\ ret' = adjacent_nodes(adj_sets, src)
          /\ from' = src
    /\ op' = "adjacent_nodes"
    /\ pc' = "done"
    /\ UNCHANGED <<adj_sets, to, other, output, visited, stack,
                   iter, pending, parts, splits>>
    /\ UNCHANGED not_graph_vars

\* g.reachable_nodes_from_multi(from)
ReachableNodesFromMulti ==
    /\ pc = "idle"
    /\ \E srcs \in SUBSET Nodes :
          /\ ret' = reachable_nodes_from_multi(adj_sets, srcs)
          /\ from' = srcs
    /\ op' = "reachable_nodes_from_multi"
    /\ pc' = "done"
    /\ UNCHANGED <<adj_sets, to, other, output, visited, stack,
                   iter, pending, parts, splits>>
    /\ UNCHANGED not_graph_vars

\* g.reachable_nodes(from): entry, up to the first test of the loop.
ReachStart ==
    /\ pc = "idle"
    /\ \E src \in Nodes :
          /\ from' = src
          /\ visited' = dfs_init(adj_sets, src).visited
          /\ stack' = dfs_init(adj_sets, src).stack
    /\ op' = "reachable_nodes"
    /\ pc' = "reach"
    /\ UNCHANGED <<adj_sets, to, other, output, ret,
                   iter, pending, parts, splits>>
    /\ UNCHANGED not_graph_vars

\* Mutant of ReachStep: the loop body runs without the test of the `while`.
ReachStepUntested ==
    /\ pc = "reach"
    /\ IF stack = << >>
       THEN pc' = "panic" /\ UNCHANGED <<visited, stack>>
       ELSE LET s == dfs_step(adj_sets, visited, stack)
            IN  visited' = s.visited /\ stack' = s.stack /\ UNCHANGED pc
    /\ UNCHANGED <<adj_sets, op, from, to, other, output, ret,
                   iter, pending, parts, splits>>
    /\ UNCHANGED not_graph_vars

\* g.reachable_nodes(from): one iteration of the loop.  The test of the
\* `while` is `!stack.is_empty()`; in the body, `stack.pop().unwrap()`
\* panics when pop() finds the stack empty.
ReachStep ==
    /\ pc = "reach"
    /\ stack # << >>
    /\ IF stack = << >>
       THEN pc' = "panic" /\ UNCHANGED <<visited, stack>>
       ELSE LET s == dfs_step(adj_sets, visited, stack)
            IN  visited' = s.visited /\ stack' = s.stack /\ UNCHANGED pc
    /\ UNCHANGED <<adj_sets, op, from, to, other, output, ret,
                   iter, pending, parts, splits>>
    /\ UNCHANGED not_graph_vars

\* g.reachable_nodes(from): the loop ends, visited is returned.
ReachReturn ==
    /\ pc = "reach"
    /\ stack = << >>
    /\ pc' = "done"
    /\ UNCHANGED <<adj_sets, op, from, to, other, output, ret, visited, stack,
                   iter, pending, parts, splits>>
    /\ UNCHANGED not_graph_vars

\* g.transitive_closure()
TransitiveClosure ==
    /\ pc = "idle"
    /\ output' = transitive_closure(adj_sets)
    /\ op' = "transitive_closure"
    /\ pc' = "done"
    /\ UNCHANGED <<adj_sets, from, to, other, ret, visited, stack,
                   iter, pending, parts, splits>>
    /\ UNCHANGED not_graph_vars

\* g.reverse()
Reverse ==
    /\ pc = "idle"
    /\ output' = reverse(adj_sets)
    /\ op' = "reverse"
    /\ pc' = "done"
    /\ UNCHANGED <<adj_sets, from, to, other, ret, visited, stack,
                   iter, pending, parts, splits>>
    /\ UNCHANGED not_graph_vars

\* g.union(&other)
Union ==
    /\ pc = "idle"
    /\ \E rhs \in OtherGraphs :
          /\ output' = union(adj_sets, rhs)
          /\ other' = rhs
    /\ op' = "union"
    /\ pc' = "done"
    /\ UNCHANGED <<adj_sets, from, to, ret, visited, stack,
                   iter, pending, parts, splits>>
    /\ UNCHANGED not_graph_vars

\* g.cmp(&other)
Cmp ==
    /\ pc = "idle"
    /\ \E rhs \in OtherGraphs :
          /\ ret' = cmp(adj_sets, rhs)
          /\ other' = rhs
    /\ op' = "cmp"
    /\ pc' = "done"
    /\ UNCHANGED <<adj_sets, from, to, output, visited, stack,
                   iter, pending, parts, splits>>
    /\ UNCHANGED not_graph_vars

\* The client lets go of the result of the last call; g is kept.
Drop ==
    /\ pc = "done"
    /\ pc' = "idle"
    /\ op' = "none"
    /\ NoArgs /\ NoOutput /\ NoDfs /\ NoPar
    /\ UNCHANGED adj_sets
    /\ UNCHANGED not_graph_vars

\* g = <the graph the last call returned>, when it is small enough for the
\* client to go on with.
Adopt ==
    /\ pc = "done"
    /\ op \in {"transitive_closure", "reverse", "union", "from_par_iter"}
    /\ Cardinality(Edges(output)) <= MaxEdges
    /\ adj_sets' = output
    /\ pc' = "idle"
    /\ op' = "none"
    /\ NoArgs /\ NoOutput /\ NoDfs /\ NoPar
    /\ UNCHANGED not_graph_vars

\* g = EnumSetDiGraph::from_iter(iter): the sequential construction.
FromIter ==
    /\ pc = "idle"
    /\ \E pairs \in PairLists :
          /\ adj_sets' = from_iter(pairs)
          /\ iter' = pairs
    /\ op' = "from_iter"
    /\ pc' = "done"
    /\ UNCHANGED <<from, to, other, output, ret, visited, stack,
                   pending, parts, splits>>
    /\ UNCHANGED not_graph_vars

\* EnumSetDiGraph::from_par_iter(iter), on the list from_iter was just given:
\* the reduction starts with one worker, whose accumulator is the reduce
\* identity EnumSetDiGraph::new().
FromParIterStart ==
    /\ pc = "done"
    /\ op = "from_iter"
    /\ pc' = "par"
    /\ op' = "from_par_iter"
    /\ pending' = 1 .. Len(iter)
    /\ parts' = SetToBag({new})
    /\ splits' = 0
    /\ UNCHANGED <<adj_sets, from, to, other, output, ret, visited, stack, iter>>
    /\ UNCHANGED not_graph_vars

\* reduce: the work is split and one more worker starts from the identity.
ParSplit ==
    /\ pc = "par"
    /\ splits < MaxSplits
    /\ splits' = splits + 1
    /\ parts' = parts (+) SetToBag({new})
    /\ UNCHANGED <<adj_sets, op, from, to, other, output, ret, visited, stack,
                   pc, iter, pending>>
    /\ UNCHANGED not_graph_vars

\* .map(once).map(EnumSetDiGraph::from_iter): some worker turns one pair,
\* any pair not yet taken, into the graph of that single edge.
ParMap ==
    /\ pc = "par"
    /\ \E i \in pending :
          /\ pending' = pending \ {i}
          /\ parts' = parts (+) SetToBag({from_iter(<<iter[i]>>)})
    /\ UNCHANGED <<adj_sets, op, from, to, other, output, ret, visited, stack,
                   pc, iter, splits>>
    /\ UNCHANGED not_graph_vars

\* reduce: |graph0, graph1| graph0.union(&graph1), on any two partial graphs.
ParReduce ==
    /\ pc = "par"
    /\ \E graph0 \in BagToSet(parts) :
       \E graph1 \in BagToSet(parts (-) SetToBag({graph0})) :
          parts' = ((parts (-) SetToBag({graph0})) (-) SetToBag({graph1}))
                       (+) SetToBag({union(graph0, graph1)})
    /\ UNCHANGED <<adj_sets, op, from, to, other, output, ret, visited, stack,
                   pc, iter, pending, splits>>
    /\ UNCHANGED not_graph_vars

\* reduce returns once every pair is mapped and one graph is left.
ParReturn ==
    /\ pc = "par"
    /\ pending = {}
    /\ BagCardinality(parts) = 1
    /\ output' = CHOOSE graph \in BagToSet(parts) : TRUE
    /\ parts' = EmptyBag
    /\ pc' = "done"
    /\ UNCHANGED <<adj_sets, op, from, to, other, ret, visited, stack,
                   iter, pending, splits>>
    /\ UNCHANGED not_graph_vars

\* ------------------------------------- actions on the implication tables
\* tpc is "idle" outside a dereference; inside, "call_once" before the Once
\* is entered, "wait" while another thread runs the initialiser, "init",
\* "init_loop", "store" and "finish" in the thread that runs the initialiser,
\* "read" when the Once is passed, and "got" when the thread holds the
\* reference.  The initialisers do not panic, so the Once is never poisoned.

\* A thread dereferences a table: Once::call_once returns at once when the
\* Once is completed.
Deref ==
    \E t \in Threads, table \in Tables :
        /\ tpc[t] = "idle"
        /\ tbl' = [tbl EXCEPT ![t] = table]
        /\ tpc' = [tpc EXCEPT ![t] = IF once[table] = "COMPLETE"
                                      THEN "read" ELSE "call_once"]
        /\ UNCHANGED <<once, cell, runs, local, todo, seen>>
        /\ UNCHANGED not_lazy_vars

\* Mutant of OnceBegin: a thread that finds the Once running runs the
\* initialiser too.
OnceBeginUnguarded ==
    \E t \in Threads :
        /\ tpc[t] = "call_once"
        /\ IF once[tbl[t]] # "COMPLETE"
           THEN /\ once' = [once EXCEPT ![tbl[t]] = "RUNNING"]
                /\ tpc' = [tpc EXCEPT ![t] = "init"]
           ELSE /\ tpc' = [tpc EXCEPT ![t] = "read"]
                /\ UNCHANGED once
        /\ UNCHANGED <<cell, runs, tbl, local, todo, seen>>
        /\ UNCHANGED not_lazy_vars

\* Once::call_once past the fast path: one atomic step on the state of the
\* Once.  The thread that finds it incomplete sets it running and will run
\* the initialiser; a thread that finds it running waits.
OnceBegin ==
    \E t \in Threads :
        /\ tpc[t] = "call_once"
        /\ IF once[tbl[t]] = "INCOMPLETE"
           THEN /\ once' = [once EXCEPT ![tbl[t]] = "RUNNING"]
                /\ tpc' = [tpc EXCEPT ![t] = "init"]
           ELSE /\ tpc' = [tpc EXCEPT ![t] = IF once[tbl[t]] = "RUNNING"
                                             THEN "wait" ELSE "read"]
                /\ UNCHANGED once
        /\ UNCHANGED <<cell, runs, tbl, local, todo, seen>>
        /\ UNCHANGED not_lazy_vars

\* A waiting thread goes on when the Once is completed.
OnceWait ==
    \E t \in Threads :
        /\ tpc[t] = "wait"
        /\ once[tbl[t]] = "COMPLETE"
        /\ tpc' = [tpc EXCEPT ![t] = "read"]
        /\ UNCHANGED <<once, cell, runs, tbl, local, todo, seen>>
        /\ UNCHANGED not_lazy_vars

\* The initialiser body is entered.
InitEnter ==
    \E t \in Threads :
        /\ tpc[t] = "init"
        /\ runs' = [runs EXCEPT ![tbl[t]] = @ + 1]
        /\ local' = [local EXCEPT ![t] = Some(init_start(tbl[t]))]
        /\ todo' = [todo EXCEPT ![t] = init_input(tbl[t])]
        /\ tpc' = [tpc EXCEPT ![t] = "init_loop"]
        /\ UNCHANGED <<once, cell, tbl, seen>>
        /\ UNCHANGED not_lazy_vars

\* The initialiser body takes in the next element of its list.
InitStep ==
    \E t \in Threads :
        /\ tpc[t] = "init_loop"
        /\ todo[t] # << >>
        /\ local' = [local EXCEPT ![t] =
                        Some(init_step(tbl[t], local[t].value, Head(todo[t])))]
        /\ todo' = [todo EXCEPT ![t] = Tail(todo[t])]
        /\ UNCHANGED <<once, cell, runs, tpc, tbl, seen>>
        /\ UNCHANGED not_lazy_vars

\* The list is used up: the initialiser body runs to its end.
InitEnd ==
    \E t \in Threads :
        /\ tpc[t] = "init_loop"
        /\ todo[t] = << >>
        /\ local' = [local EXCEPT ![t] = Some(init_end(tbl[t], local[t].value))]
        /\ tpc' = [tpc EXCEPT ![t] = "store"]
        /\ UNCHANGED <<once, cell, runs, tbl, todo, seen>>
        /\ UNCHANGED not_lazy_vars

\* The value the initialiser returned is moved into the cell.
Store ==
    \E t \in Threads :
        /\ tpc[t] = "store"
        /\ cell' = [cell EXCEPT ![tbl[t]] = local[t]]
        /\ local' = [local EXCEPT ![t] = None]
        /\ tpc' = [tpc EXCEPT ![t] = "finish"]
        /\ UNCHANGED <<once, runs, tbl, todo, seen>>
        /\ UNCHANGED not_lazy_vars

\* The Once is completed, which lets the waiting threads go on.
OnceFinish ==
    \E t \in Threads :
        /\ tpc[t] = "finish"
        /\ once' = [once EXCEPT ![tbl[t]] = "COMPLETE"]
        /\ tpc' = [tpc EXCEPT ![t] = "read"]
        /\ UNCHANGED <<cell, runs, tbl, local, todo, seen>>
        /\ UNCHANGED not_lazy_vars

\* Past the Once, the thread takes the reference to what the cell holds.
Read ==
    \E t \in Threads :
        /\ tpc[t] = "read"
        /\ seen' = [seen EXCEPT ![t] = cell[tbl[t]]]
        /\ tpc' = [tpc EXCEPT ![t] = "got"]
        /\ UNCHANGED <<once, cell, runs, tbl, local, todo>>
        /\ UNCHANGED not_lazy_vars

\* The thread is done with the reference.
Release ==
    \E t \in Threads :
        /\ tpc[t] = "got"
        /\ seen' = [seen EXCEPT ![t] = None]
        /\ tpc' = [tpc EXCEPT ![t] = "idle"]
        /\ UNCHANGED <<once, cell, runs, tbl, local, todo>>
        /\ UNCHANGED not_lazy_vars

\* ------------------------------------- actions on the ancestor search
\* The node type gets one more parent link: parents() of node returns one
\* more element.  The node type is fixed while a call runs.
AddParent ==
    /\ hpc = "idle"
    /\ LinksFrom(parents, 0) < MaxLinks
    /\ \E node \in Nodes, parent \in Nodes :
          parents' = [parents EXCEPT ![node] = Append(@, parent)]
    /\ UNCHANGED <<hpc, hop, hself, children, anc_output, anc_visited,
                   next_parents, hret>>
    /\ UNCHANGED not_hier_vars

\* node.ancestors_and_self(): up to the loop.
AncStart ==
    /\ hpc = "idle"
    /\ \E node \in Nodes :
          LET s == anc_init(parents, node)
          IN  /\ hself' = node
              /\ anc_output' = s.output
              /\ anc_visited' = s.visited
              /\ next_parents' = s.next_parents
    /\ hop' = "ancestors_and_self"
    /\ hpc' = "anc"
    /\ UNCHANGED <<parents, children, hret>>
    /\ UNCHANGED not_hier_vars

\* node.ancestors_and_self(): one iteration of the loop.  next_parents holds
\* the parent lists of nodes visited in one iteration, each at most once, so
\* it is never longer than the number of links; the model follows it no
\* further than that.
AncStep ==
    /\ hpc = "anc"
    /\ next_parents # << >>
    /\ Len(next_parents) <= MaxLinks
    /\ LET s == anc_step(parents, [output |-> anc_output,
                                   visited |-> anc_visited,
                                   next_parents |-> next_parents])
       IN  /\ anc_output' = s.output
           /\ anc_visited' = s.visited
           /\ next_parents' = s.next_parents
    /\ UNCHANGED <<parents, hpc, hop, hself, children, hret>>
    /\ UNCHANGED not_hier_vars

\* node.ancestors_and_self(): the loop ends, output is returned.
AncReturn ==
    /\ hpc = "anc"
    /\ next_parents = << >>
    /\ hret' = anc_output
    /\ hpc' = "done"
    /\ UNCHANGED <<parents, hop, hself, children, anc_output, anc_visited,
                   next_parents>>
    /\ UNCHANGED not_hier_vars

\* Self::ancestors_and_self_multiple(children)
AncMultiple ==
    /\ hpc = "idle"
    /\ \E nodes \in ChildLists :
          /\ children' = nodes
          /\ hret' = ancestors_and_self_multiple(parents, nodes)
    /\ hop' = "ancestors_and_self_multiple"
    /\ hpc' = "done"
    /\ UNCHANGED <<parents, hself, anc_output, anc_visited, next_parents>>
    /\ UNCHANGED not_hier_vars

\* The client lets go of the result of the last call on the node type.
HierDrop ==
    /\ hpc = "done"
    /\ hpc' = "idle"
    /\ hop' = "none"
    /\ hself' = 0
    /\ children' = << >>
    /\ anc_output' = {}
    /\ anc_visited' = {}
    /\ next_parents' = << >>
    /\ hret' = {}
    /\ UNCHANGED parents
    /\ UNCHANGED not_hier_vars

\* ------------------------------------ actions on the class hierarchy
\* The hierarchy gets one more link: direct_superclasses() of a class yields
\* one more class.  The hierarchy is fixed while a call runs.
AddSuperclass ==
    /\ cpc = "idle"
    /\ SuperLinksFrom(superclasses, 0) < MaxSuperLinks
    /\ \E class \in Nodes, super \in Nodes :
          superclasses' = [superclasses EXCEPT ![class] = Append(@, super)]
    /\ UNCHANGED <<cpc, cself, cother, sub_visited, remaining, cret>>
    /\ UNCHANGED not_class_vars

\* class.is_subclass_of(&other): up to the loop.
SubStart ==
    /\ cpc = "idle"
    /\ \E class \in Nodes, target \in Nodes :
          LET s == sub_init(superclasses, class)
          IN  /\ cself' = class
              /\ cother' = target
              /\ sub_visited' = s.visited
              /\ remaining' = s.remaining
    /\ cpc' = "sub"
    /\ UNCHANGED <<superclasses, cret>>
    /\ UNCHANGED not_class_vars

\* class.is_subclass_of(&other): one iteration of the loop, which returns
\* true when it pops `other`.  remaining holds the class itself and the
\* superclass lists of classes visited, each at most once; the model follows
\* it no further than that.
SubStep ==
    /\ cpc = "sub"
    /\ remaining # << >>
    /\ Len(remaining) <= MaxSuperLinks + 1
    /\ LET s == sub_step(superclasses, cother,
                         [visited |-> sub_visited, remaining |-> remaining])
       IN  /\ sub_visited' = s.visited
           /\ remaining' = s.remaining
           /\ IF s.found
              THEN cret' = TRUE /\ cpc' = "done"
              ELSE UNCHANGED <<cret, cpc>>
    /\ UNCHANGED <<superclasses, cself, cother>>
    /\ UNCHANGED not_class_vars

\* class.is_subclass_of(&other): pop() gives None, the loop ends and false
\* is returned.
SubReturn ==
    /\ cpc = "sub"
    /\ remaining = << >>
    /\ cret' = FALSE
    /\ cpc' = "done"
    /\ UNCHANGED <<superclasses, cself, cother, sub_visited, remaining>>
    /\ UNCHANGED not_class_vars

\* The client lets go of the result of is_subclass_of.
ClassDrop ==
    /\ cpc = "done"
    /\ cpc' = "idle"
    /\ cself' = 0
    /\ cother' = 0
    /\ sub_visited' = {}
    /\ remaining' = << >>
    /\ cret' = FALSE
    /\ UNCHANGED superclasses
    /\ UNCHANGED not_class_vars

\* ------------------------------------ actions on the standard types
\* The plugin-type implication graph is built as the initialiser of
\* PLUGIN_TYPES_IMPLIED builds it: the reduction starts,
BuildStart ==
    /\ bpc = "none"
    /\ implied' = Some(init_start("PLUGIN_TYPES_IMPLIED"))
    /\ implied_rest' = init_input("PLUGIN_TYPES_IMPLIED")
    /\ bpc' = "loop"
    /\ UNCHANGED <<std_call, std_self, std_other, std_edge, std_sub>>
    /\ UNCHANGED not_std_vars

\* takes in the next direct implication,
BuildStep ==
    /\ bpc = "loop"
    /\ implied_rest # << >>
    /\ implied' = Some(init_step("PLUGIN_TYPES_IMPLIED", implied.value,
                                 Head(implied_rest)))
    /\ implied_rest' = Tail(implied_rest)
    /\ UNCHANGED <<bpc, std_call, std_self, std_other, std_edge, std_sub>>
    /\ UNCHANGED not_std_vars

\* and ends with the transitive closure.
BuildEnd ==
    /\ bpc = "loop"
    /\ implied_rest = << >>
    /\ implied' = Some(init_end("PLUGIN_TYPES_IMPLIED", implied.value))
    /\ bpc' = "built"
    /\ UNCHANGED <<implied_rest, std_call, std_self, std_other, std_edge, std_sub>>
    /\ UNCHANGED not_std_vars

\* For two plugin types that are in both enums: has_edge(a, b) on the graph
\* and a.is_subclass_of(&b) on the StdPluginType variants.
PluginCalls ==
    /\ bpc = "built"
    /\ std_call = "none"
    /\ \E a \in CommonPluginTypes, b \in CommonPluginTypes :
          /\ std_self' = a
          /\ std_other' = b
          /\ std_edge' = has_edge(implied.value,
                                  to_usize(PluginTypeVariants, a[1]),
                                  to_usize(PluginTypeVariants, b[1]))
          /\ std_sub' = is_subclass_of(StdPluginHierarchy, a[2], b[2])
    /\ std_call' = "plugin"
    /\ UNCHANGED <<implied, implied_rest, bpc>>
    /\ UNCHANGED not_std_vars

\* a.is_subclass_of(&b) on two StdAtomType variants.
AtomIsSubclassOf ==
    /\ bpc = "none"
    /\ std_call = "none"
    /\ \E a \in StdAtomTypes, b \in StdAtomTypes :
          /\ std_self' = a
          /\ std_other' = b
          /\ std_sub' = is_subclass_of(StdAtomHierarchy, a, b)
    /\ std_call' = "atom"
    /\ UNCHANGED <<implied, implied_rest, bpc, std_edge>>
    /\ UNCHANGED not_std_vars

\* The client lets go of the results of the last call.
StdDrop ==
    /\ std_call # "none"
    /\ std_call' = "none"
    /\ std_self' = "Atom"
    /\ std_other' = "Atom"
    /\ std_edge' = FALSE
    /\ std_sub' = FALSE
    /\ UNCHANGED <<implied, implied_rest, bpc>>
    /\ UNCHANGED not_std_vars

\* --------------------------- actions on ResourceVersion and Literal
\* ResourceVersion::new(minor_version, micro_version)
VersionNew ==
    /\ \E minor \in 0 .. MaxVersion, micro \in 0 .. MaxVersion :
          version' = ResourceVersion_new(minor, micro)
    /\ vcall' = "new"
    /\ vret' = FALSE
    /\ UNCHANGED <<literal, lcall, requested>>
    /\ UNCHANGED not_value_vars

\* version.is_pre_release()
IsPreRelease ==
    /\ vret' = is_pre_release(version)
    /\ vcall' = "is_pre_release"
    /\ UNCHANGED <<version, literal, lcall, requested>>
    /\ UNCHANGED not_value_vars

\* version.is_dev_release()
IsDevRelease ==
    /\ vret' = is_dev_release(version)
    /\ vcall' = "is_dev_release"
    /\ UNCHANGED <<version, literal, lcall, requested>>
    /\ UNCHANGED not_value_vars

\* Literal::new(value)
LiteralNew ==
    /\ \E value \in LiteralValues : literal' = Some(Literal_new(value))
    /\ lcall' = "new"
    /\ requested' = non_lang_tagged_literal_default_data_type
    /\ UNCHANGED <<version, vcall, vret>>
    /\ UNCHANGED not_value_vars

\* Literal::with_lang_tag(value, lang_tag)
WithLangTag ==
    /\ \E value \in LiteralValues, lang_tag \in LangTags :
          literal' = Some(with_lang_tag(value, lang_tag))
    /\ lcall' = "with_lang_tag"
    /\ requested' = non_lang_tagged_literal_default_data_type
    /\ UNCHANGED <<version, vcall, vret>>
    /\ UNCHANGED not_value_vars

\* Literal::with_data_type(value, data_type)
WithDataType ==
    /\ \E value \in LiteralValues, data_type \in DataTypes :
          /\ literal' = with_data_type(value, data_type)
          /\ requested' = data_type
    /\ lcall' = "with_data_type"
    /\ UNCHANGED <<version, vcall, vret>>
    /\ UNCHANGED not_value_vars

\* ------------------------------------- actions of the counted search
\* g.reachable_nodes(from), counted: entry, up to the first test of the loop.
CountStart ==
    /\ pc = "idle"
    /\ \E src \in Nodes :
          /\ from' = src
          /\ visited' = dfs_init(adj_sets, src).visited
          /\ stack' = dfs_init(adj_sets, src).stack
    /\ op' = "reachable_nodes"
    /\ pc' = "count"
    /\ marks' = no_counts /\ pushes' = no_counts /\ pops' = 0
    /\ UNCHANGED <<adj_sets, to, other, output, ret,
                   iter, pending, parts, splits>>
    /\ UNCHANGED not_count_vars

\* g.reachable_nodes(from), counted: one iteration of the loop.  The call is
\* followed for two pops more than the edges of the graph.
CountStep ==
    /\ pc = "count"
    /\ stack # << >>
    /\ pops <= Cardinality(Edges(adj_sets)) + 1
    /\ LET s == dfs_step_counted(adj_sets, visited, stack,
                                 marks, pushes, pops)
       IN  /\ visited' = s.visited /\ stack' = s.stack
           /\ marks' = s.marks /\ pushes' = s.pushes /\ pops' = s.pops
    /\ UNCHANGED <<adj_sets, op, from, to, other, output, ret, pc,
                   iter, pending, parts, splits>>
    /\ UNCHANGED not_count_vars

\* g.reachable_nodes(from), counted: the loop ends, visited is returned.
CountReturn ==
    /\ pc = "count"
    /\ stack = << >>
    /\ pc' = "done"
    /\ UNCHANGED <<adj_sets, op, from, to, other, output, ret, visited, stack,
                   iter, pending, parts, splits>>
    /\ UNCHANGED count_vars
    /\ UNCHANGED not_count_vars

\* The client lets go of the result of the last call and of its counts; g is
\* kept.
CountDrop ==
    /\ pc = "done"
    /\ pc' = "idle"
    /\ op' = "none"
    /\ NoArgs /\ NoOutput /\ NoDfs /\ NoPar
    /\ marks' = no_counts /\ pushes' = no_counts /\ pops' = 0
    /\ UNCHANGED adj_sets
    /\ UNCHANGED not_count_vars

\* ------------------------------------------------------ specifications
\* A client that builds a graph edge by edge and queries it.
Next ==
    \/ New
    \/ InsertEdge
    \/ HasEdge
    \/ HasPath
    \/ AdjacentNodes
    \/ ReachableNodesFromMulti
    \/ ReachStart
    \/ ReachStep
    \/ ReachReturn
    \/ TransitiveClosure
    \/ Reverse
    \/ Drop

Spec == Init /\ [][Next]_vars

\* A client that builds a graph edge by edge and calls reachable_nodes on
\* it.  A call that has started keeps running: the loop is sequential code
\* that nothing suspends.
NextReach ==
    \/ InsertEdge
    \/ ReachStart
    \/ ReachStep
    \/ ReachReturn
    \/ Drop

SpecReach ==
    Init /\ [][NextReach]_vars /\ WF_vars(ReachStep) /\ WF_vars(ReachReturn)

\* A client that builds a graph edge by edge and unions it with another.
NextUnion ==
    \/ InsertEdge
    \/ Union
    \/ Drop

SpecUnion == Init /\ [][NextUnion]_vars

\* A client that builds a graph from a list of pairs, sequentially and then
\* in parallel.
NextPar ==
    \/ FromIter
    \/ FromParIterStart
    \/ ParSplit
    \/ ParMap
    \/ ParReduce
    \/ ParReturn

SpecPar == Init /\ [][NextPar]_vars

\* A client that builds a graph edge by edge and compares it with another.
NextCmp ==
    \/ InsertEdge
    \/ Cmp
    \/ Drop

SpecCmp == Init /\ [][NextCmp]_vars

\* Threads that dereference the implication tables, in any interleaving.
NextLazy ==
    \/ Deref
    \/ OnceBegin
    \/ OnceWait
    \/ InitEnter
    \/ InitStep
    \/ InitEnd
    \/ Store
    \/ OnceFinish
    \/ Read
    \/ Release

SpecLazy == Init /\ [][NextLazy]_vars

\* A client that gives the node type its parent links and searches the
\* ancestors of a node; the loop of the search, once entered, goes on.
NextAnc ==
    \/ AddParent
    \/ AncStart
    \/ AncStep
    \/ AncReturn
    \/ HierDrop

SpecAnc ==
    Init /\ [][NextAnc]_vars /\ WF_vars(AncStep) /\ WF_vars(AncReturn)

\* A client that searches the ancestors of a list of nodes.
NextAncMultiple ==
    \/ AddParent
    \/ AncMultiple
    \/ HierDrop

SpecAncMultiple == Init /\ [][NextAncMultiple]_vars

\* A client that gives the class hierarchy its links and asks whether one
\* class is a subclass of another; the loop, once entered, goes on.
NextClass ==
    \/ AddSuperclass
    \/ SubStart
    \/ SubStep
    \/ SubReturn
    \/ ClassDrop

SpecClass ==
    Init /\ [][NextClass]_vars /\ WF_vars(SubStep) /\ WF_vars(SubReturn)

\* A client that asks for subclasses among the standard atom types, builds
\* the plugin-type implication graph and sets it against the standard
\* plugin types.
NextStd ==
    \/ AtomIsSubclassOf
    \/ BuildStart
    \/ BuildStep
    \/ BuildEnd
    \/ PluginCalls
    \/ StdDrop

SpecStd == Init /\ [][NextStd]_vars

\* A client that builds a graph edge by edge and calls reachable_nodes on
\* it, with the statements of the loop counted.
NextCount ==
    \/ InsertEdge
    \/ CountStart
    \/ CountStep
    \/ CountReturn
    \/ CountDrop

SpecCount == Init /\ [][NextCount]_vars

\* A client that makes resource versions and literals and asks the versions
\* what release they are.
NextValue ==
    \/ VersionNew
    \/ IsPreRelease
    \/ IsDevRelease
    \/ LiteralNew
    \/ WithLangTag
    \/ WithDataType

SpecValue == Init /\ [][NextValue]_vars

\* A client that uses every operation of the graph, in any order.
NextAll ==
    \/ Next
    \/ Union
    \/ Adopt
    \/ NextPar

SpecAll == Init /\ [][NextAll]_vars

\* -------------------------------------------------------------- claims
\* The nodes reached from x by a path of exactly k edges.
RECURSIVE StepsFrom(_, _, _)
StepsFrom(G, x, k) ==
    IF k = 0 THEN {x}
    ELSE UNION {G[n] : n \in StepsFrom(G, x, k - 1)}

\* The nodes reached from x by a path of zero or more edges.  A path that
\* reaches a node reaches it without repeating a node, so in at most
\* NumNodes - 1 edges; lengths up to NumNodes are taken.
Reachable(G, x) == UNION {StepsFrom(G, x, k) : k \in 0 .. NumNodes}

\* The last call was `name` and it has returned.
Returned(name) == op = name /\ pc = "done"

\* G has a cycle of two or more nodes through n.
OnCycle(G, n) == \E m \in G[n] : m # n /\ n \in Reachable(G, m)

\* C1: reachable_nodes(from) returns exactly the nodes y with a directed path
\* of zero or more edges from `from` to y: none missing, none added.
C1_ReachableNodesExact ==
    Returned("reachable_nodes") => visited = Reachable(adj_sets, from)

\* C1 witness: a search that returned on a graph with a self-loop on `from`,
\* a longer cycle through `from`, and a node that is not reachable.
C1_Witness ==
    /\ Returned("reachable_nodes")
    /\ from \in adj_sets[from]
    /\ OnCycle(adj_sets, from)
    /\ visited # Nodes
    /\ Cardinality(visited) >= 2

\* C2: every node n is in reachable_nodes(n), so has_path(n, n) is true, on
\* every graph, the empty one too, with or without a self-loop on n.
C2_Reflexive ==
    /\ \A n \in Nodes : n \in reachable_nodes(adj_sets, n)
    /\ \A n \in Nodes : has_path(adj_sets, n, n)
    /\ Returned("reachable_nodes") => from \in visited
    /\ (Returned("has_path") /\ from = to) => ret

\* C2 witness: has_path(n, n) has returned true on the empty graph.
C2_Witness ==
    /\ Returned("has_path")
    /\ from = to
    /\ adj_sets = new
    /\ ret

\* C3: a call of reachable_nodes that has started reaches an empty stack and
\* returns, whatever cycles and self-loops the graph has.
C3_ReachTerminates ==
    (pc = "reach") ~> (pc = "done" /\ stack = << >>)

\* C3 witness: a search that returned after going round a cycle and past a
\* self-loop.
C3_Witness ==
    /\ Returned("reachable_nodes")
    /\ stack = << >>
    /\ \E n \in visited : OnCycle(adj_sets, n)
    /\ \E n \in visited : n \in adj_sets[n]

\* C4: transitive_closure(G) has the edge (x, y) exactly when G.has_path(x, y),
\* that is when y is reachable from x in G by zero or more edges; every node
\* has a self-loop in it.
C4_ClosureIsReachability ==
    Returned("transitive_closure") =>
        /\ \A x \in Nodes, y \in Nodes :
              /\ has_edge(output, x, y) <=> has_path(adj_sets, x, y)
              /\ has_edge(output, x, y) <=> y \in Reachable(adj_sets, x)
        /\ \A n \in Nodes : has_edge(output, n, n)

\* C4 witness: a closure that gained an edge along a two-edge path and lacks
\* an edge between two nodes.
C4_Witness ==
    /\ Returned("transitive_closure")
    /\ \E x \in Nodes, y \in Nodes :
          /\ x # y
          /\ has_edge(output, x, y)
          /\ ~has_edge(adj_sets, x, y)
    /\ \E x \in Nodes, y \in Nodes : ~has_edge(output, x, y)

\* C5: transitive_closure is idempotent: the closure of the closure of G is
\* the closure of G, adjacency set by adjacency set.
C5_ClosureIdempotent ==
    Returned("transitive_closure") =>
        /\ transitive_closure(output) = output
        /\ \A n \in Nodes : transitive_closure(output)[n] = output[n]

\* C5 witness: a closure, different from the graph it was taken of, of a
\* graph with a cycle.
C5_Witness ==
    /\ Returned("transitive_closure")
    /\ \E n \in Nodes : OnCycle(adj_sets, n)
    /\ Edges(output) # Edges(adj_sets) \cup {<<n, n>> : n \in Nodes}

\* C6: if G has the edge (a, b) and its closure has the edge (b, c), then its
\* closure has the edge (a, c).
C6_ClosureTransitive ==
    Returned("transitive_closure") =>
        \A a \in Nodes, b \in Nodes, c \in Nodes :
            (has_edge(adj_sets, a, b) /\ has_edge(output, b, c))
                => has_edge(output, a, c)

\* C6 witness: three different nodes a, b, c with (a, b) in G, (b, c) in the
\* closure and (a, c) not in G.
C6_Witness ==
    /\ Returned("transitive_closure")
    /\ \E a \in Nodes, b \in Nodes, c \in Nodes :
          /\ a # b /\ b # c /\ a # c
          /\ has_edge(adj_sets, a, b)
          /\ has_edge(output, b, c)
          /\ ~has_edge(adj_sets, a, c)

\* The pairs of a list.
PairsOf(pairs) == {pairs[i] : i \in 1 .. Len(pairs)}

\* C7: from_iter and from_par_iter build the same graph from the same list of
\* pairs, whatever the order the pairs are taken in, the split into workers,
\* the order and grouping of the unions and the identity graphs merged in;
\* its edges are exactly the pairs of the list.
C7_ParallelEqualsSequential ==
    /\ (op \in {"from_iter", "from_par_iter"}) =>
           Edges(adj_sets) = PairsOf(iter)
    /\ Returned("from_par_iter") =>
           /\ output = adj_sets
           /\ Edges(output) = PairsOf(iter)

\* C7 witness: the parallel construction has returned on a list of two or
\* more pairs, two of them different, with the work split once or more.
C7_Witness ==
    /\ Returned("from_par_iter")
    /\ Len(iter) >= 2
    /\ iter[1] # iter[2]
    /\ splits >= 1

\* C8: reverse(G) has the edge (b, a) exactly when G has the edge (a, b): no
\* edge is added, none is dropped, a self-loop stays a self-loop.
C8_ReverseFlipsEdges ==
    Returned("reverse") =>
        /\ \A a \in Nodes, b \in Nodes :
              has_edge(output, b, a) = has_edge(adj_sets, a, b)
        /\ Cardinality(Edges(output)) = Cardinality(Edges(adj_sets))
        /\ \A n \in Nodes : has_edge(output, n, n) = has_edge(adj_sets, n, n)

\* C8 witness: the reverse of a graph with a self-loop and with an edge whose
\* opposite edge is absent.
C8_Witness ==
    /\ Returned("reverse")
    /\ \E n \in Nodes : has_edge(adj_sets, n, n)
    /\ \E a \in Nodes, b \in Nodes :
          has_edge(adj_sets, a, b) /\ ~has_edge(adj_sets, b, a)

\* C9: reverse is an involution: the reverse of the reverse of G is G.
C9_ReverseInvolution ==
    Returned("reverse") => reverse(output) = adj_sets

\* C9 witness: the reverse of a graph that differs from its reverse and has
\* a self-loop.
C9_Witness ==
    /\ Returned("reverse")
    /\ output # adj_sets
    /\ \E n \in Nodes : has_edge(adj_sets, n, n)

\* C10: union is commutative, union(G, H) = union(H, G), and each node's
\* adjacency set in the result is the set union of its adjacency sets in G
\* and in H.
C10_UnionCommutative ==
    Returned("union") =>
        /\ output = union(other, adj_sets)
        /\ \A node \in Nodes : output[node] = adj_sets[node] \cup other[node]

\* C10 witness: the union of two graphs neither of which holds the other.
C10_Witness ==
    /\ Returned("union")
    /\ Edges(other) \ Edges(adj_sets) # {}
    /\ Edges(adj_sets) \ Edges(other) # {}

\* The graphs taken as a third operand K: the empty graph and every graph of
\* one edge.
ThirdGraphs == {new} \cup {GraphOf({p}) : p \in Pairs}

\* C11: union is associative: union(G, union(H, K)) = union(union(G, H), K).
C11_UnionAssociative ==
    Returned("union") =>
        \A K \in ThirdGraphs :
            union(adj_sets, union(other, K)) = union(output, K)

\* C11 witness: a union of two graphs that differ and are not empty, for
\* which a third graph with an edge of neither exists.
C11_Witness ==
    /\ Returned("union")
    /\ adj_sets # new /\ other # new /\ adj_sets # other
    /\ \E K \in ThirdGraphs :
          K # new /\ Edges(K) \cap Edges(output) = {}

\* C12: the graph new() returns has no edge, and it is the identity of
\* union: union(G, new()) and union(new(), G) are both G.
C12_EmptyIsUnionIdentity ==
    /\ \A a \in Nodes, b \in Nodes : ~has_edge(new, a, b)
    /\ union(adj_sets, new) = adj_sets
    /\ union(new, adj_sets) = adj_sets
    /\ (Returned("union") /\ other = new) => output = adj_sets

\* C12 witness: the union of a graph that has edges with the empty graph.
C12_Witness ==
    /\ Returned("union")
    /\ other = new
    /\ adj_sets # new
    /\ output = adj_sets

\* C13: insert_edge(from, to) makes the edge set the old edge set plus
\* (from, to): the edge is there afterwards, every other pair is as it was,
\* and inserting an edge that was there leaves the graph as it was.
C13_InsertEdgeFrame ==
    [][(pc = "idle" /\ pc' = "done" /\ op' = "insert_edge") =>
          /\ Edges(adj_sets') = Edges(adj_sets) \cup {<<from', to'>>}
          /\ has_edge(adj_sets', from', to')
          /\ \A a \in Nodes, b \in Nodes :
                (<<a, b>> # <<from', to'>>) =>
                    (has_edge(adj_sets', a, b) = has_edge(adj_sets, a, b))
          /\ has_edge(adj_sets, from', to') => adj_sets' = adj_sets]_vars

\* C13 witness: insert_edge has returned on a graph that holds another edge
\* from the same node and an edge from another node.
C13_Witness ==
    /\ Returned("insert_edge")
    /\ has_edge(adj_sets, from, to)
    /\ \E b \in Nodes : b # to /\ has_edge(adj_sets, from, b)
    /\ \E a \in Nodes : a # from /\ adj_sets[a] # {}

\* C14: reachable_nodes_from_multi(S) is the union of reachable_nodes(n) over
\* the nodes n of S; it holds every node of S and is empty when S is empty.
C14_FromMultiIsUnion ==
    Returned("reachable_nodes_from_multi") =>
        /\ ret = UNION {reachable_nodes(adj_sets, n) : n \in from}
        /\ ret = UNION {Reachable(adj_sets, n) : n \in from}
        /\ from \subseteq ret
        /\ (from = {}) => (ret = {})

\* C14 witness: a call with two or more start nodes whose reachable sets
\* differ, on a graph where a start node reaches a node that is no start
\* node.
C14_Witness ==
    /\ Returned("reachable_nodes_from_multi")
    /\ \E n \in from, m \in from :
          reachable_nodes(adj_sets, n) # reachable_nodes(adj_sets, m)
    /\ ret # from

\* C14 witness of the empty case: a call with no start node, on a graph
\* that has edges.
C14_WitnessEmpty ==
    /\ Returned("reachable_nodes_from_multi")
    /\ from = {}
    /\ adj_sets # new

\* G has one adjacency set for each node of the enum, of nodes of the enum.
IsGraph(G) ==
    /\ DOMAIN G = Nodes
    /\ \A n \in Nodes : G[n] \subseteq Nodes

\* C15: whatever sequence of new, insert_edge, transitive_closure, reverse,
\* union and construction from pairs has run, every graph has exactly one
\* adjacency set per node of the enum, holding only nodes of the enum.
C15_OneEntryPerNode ==
    /\ IsGraph(adj_sets)
    /\ IsGraph(output)
    /\ IsGraph(other)
    /\ \A G \in BagToSet(parts) : IsGraph(G)

\* C15 witness: reverse has returned a graph that differs from the client's
\* graph and has a node without successors; the client's graph has a
\* self-loop.
C15_Witness ==
    /\ Returned("reverse")
    /\ output # adj_sets
    /\ \E n \in Nodes : output[n] = {}
    /\ \E n \in Nodes : n \in adj_sets[n]

\* C16: no operation fails: no call panics (pop().unwrap() only runs on a
\* stack that is not empty), and every call that has returned has returned
\* a value of its type.
C16_NoOperationFails ==
    /\ pc # "panic"
    /\ (Returned("has_edge") \/ Returned("has_path")) => ret \in BOOLEAN
    /\ (Returned("adjacent_nodes") \/ Returned("reachable_nodes_from_multi"))
           => ret \subseteq Nodes
    /\ Returned("reachable_nodes") => visited \subseteq Nodes
    /\ (Returned("transitive_closure") \/ Returned("reverse")
           \/ Returned("union")) => IsGraph(output)
    /\ Returned("insert_edge") => IsGraph(adj_sets)
    /\ (pc = "reach" /\ stack # << >>) => stack[Len(stack)] \in Nodes

\* C16 witness: inside reachable_nodes on a graph with a cycle, the last
\* pop().unwrap() has just emptied the stack.
C16_Witness ==
    /\ pc = "reach"
    /\ stack = << >>
    /\ visited # {}
    /\ \E n \in visited : OnCycle(adj_sets, n)

\* The Ordering seen from the other side.
Flip(ordering) ==
    CASE ordering = "Less" -> "Greater"
      [] ordering = "Greater" -> "Less"
      [] OTHER -> "Equal"

\* The nodes at which two graphs differ.
DiffNodes(G, H) == {n \in Nodes : G[n] # H[n]}

\* The first node, in ascending ordinal order, at which two graphs differ.
FirstDiff(G, H) ==
    CHOOSE n \in DiffNodes(G, H) : \A m \in DiffNodes(G, H) : n <= m

\* G is not after H.
NotAfter(G, H) == cmp(G, H) # "Greater"

\* C17: two graphs are equal exactly when their adjacency sets match at
\* every node; cmp returns Equal exactly when they are equal, and otherwise
\* the order of the adjacency sets at the first node, in ascending ordinal
\* order, at which they differ; the order is antisymmetric and transitive.
C17_CmpFirstDifference ==
    Returned("cmp") =>
        /\ eq(adj_sets, other) <=> (DiffNodes(adj_sets, other) = {})
        /\ eq(adj_sets, other) <=> (adj_sets = other)
        /\ (ret = "Equal") <=> eq(adj_sets, other)
        /\ ~eq(adj_sets, other) =>
              LET n == FirstDiff(adj_sets, other)
              IN  /\ ret = set_cmp(adj_sets[n], other[n])
                  /\ ret \in {"Less", "Greater"}
        /\ cmp(other, adj_sets) = Flip(ret)
        /\ \A K \in ThirdGraphs :
              /\ (NotAfter(adj_sets, other) /\ NotAfter(other, K))
                     => NotAfter(adj_sets, K)
              /\ (NotAfter(K, adj_sets) /\ NotAfter(adj_sets, other))
                     => NotAfter(K, other)
              /\ (NotAfter(other, K) /\ NotAfter(K, adj_sets))
                     => NotAfter(other, adj_sets)

\* C17 witness: cmp has returned on two graphs that are equal at node 0,
\* differ at a later node, and differ the other way round at a node after
\* that one.
C17_Witness ==
    /\ Returned("cmp")
    /\ adj_sets[0] = other[0]
    /\ adj_sets # other
    /\ \E m \in Nodes :
          /\ m > FirstDiff(adj_sets, other)
          /\ set_cmp(adj_sets[m], other[m]) = Flip(ret)

\* Thread t holds the reference a dereference of the table gave it.
Holds(t, table) == tpc[t] = "got" /\ tbl[t] = table

\* C18: PLUGIN_TYPES_IMPLIED is its own transitive closure: in the table a
\* thread gets, has_edge(p0, p1) holds exactly when has_path(p0, p1) holds,
\* for all plugin types p0 and p1.
C18_TableIsOwnClosure ==
    \A t \in Threads :
        Holds(t, "PLUGIN_TYPES_IMPLIED") =>
            /\ seen[t].some
            /\ \A p0 \in PluginTypes, p1 \in PluginTypes :
                  has_edge(seen[t].value, p0, p1)
                      <=> has_path(seen[t].value, p0, p1)

\* C18 witness: a thread holds PLUGIN_TYPES_IMPLIED, in which MultiEQ, which
\* implies Filter both directly and by way of EQ, has the edges to EQ, to
\* Filter and to itself.
C18_Witness ==
    \E t \in Threads :
        /\ Holds(t, "PLUGIN_TYPES_IMPLIED")
        /\ seen[t].some
        /\ {EQ, Filter, MultiEQ} \subseteq adjacent_nodes(seen[t].value, MultiEQ)
        /\ <<MultiEQ, EQ>> \in Range(direct_implications)
        /\ <<EQ, Filter>> \in Range(direct_implications)

\* C19: in the plugin-type implication graph, built from the direct edges
\* and closed transitively, has_path(Reverb, Delay) is true,
\* has_path(Delay, Reverb) is false and has_path(Reverb, Reverb) is true.
C19_ReverbDelay ==
    \A t \in Threads :
        Holds(t, "PLUGIN_TYPES_IMPLIED") =>
            /\ seen[t].some
            /\ has_path(seen[t].value, Reverb, Delay)
            /\ ~has_path(seen[t].value, Delay, Reverb)
            /\ has_path(seen[t].value, Reverb, Reverb)

\* C19 witness: a thread holds PLUGIN_TYPES_IMPLIED, built from a list with
\* the direct edges from Reverb to Delay and to Simulator, and Reverb has
\* the edges to both in it.
C19_Witness ==
    \E t \in Threads :
        /\ Holds(t, "PLUGIN_TYPES_IMPLIED")
        /\ seen[t].some
        /\ <<Reverb, Delay>> \in Range(direct_implications)
        /\ <<Reverb, Simulator>> \in Range(direct_implications)
        /\ has_edge(seen[t].value, Reverb, Delay)
        /\ has_edge(seen[t].value, Reverb, Simulator)

\* The maps a table may hold: one entry for every value of its key type.
IsTable(table, v) ==
    IF table = "PLUGIN_TYPES_IMPLIED"
    THEN DOMAIN v = PluginTypes /\ \A p \in PluginTypes : v[p] \subseteq PluginTypes
    ELSE DOMAIN v = PortDesignations

\* The pairs <<a, b>> with a path of one edge or more from a to b whose
\* inner nodes are all below k, for the edge set E.
RECURSIVE PathsBelow(_, _)
PathsBelow(E, k) ==
    IF k = 0 THEN E
    ELSE LET P == PathsBelow(E, k - 1)
         IN  P \cup {<<e[1], f[2]>> :
                        e \in {x \in P : x[2] = k - 1},
                        f \in {x \in P : x[1] = k - 1}}

\* What the plugin types imply, read off the list of direct implications:
\* every type implies itself and what a chain of direct implications leads to.
ImpliedPairs == PathsBelow(Range(direct_implications), NumPluginTypes)
ImpliedTypes ==
    [p \in PluginTypes |-> {p} \cup {e[2] : e \in {x \in ImpliedPairs : x[1] = p}}]

\* What the designations imply, read off the list of implications.
ImpliedUnits ==
    [d \in PortDesignations |->
        IF \E e \in Range(implications) : e[1] = d
        THEN Some((CHOOSE e \in Range(implications) : e[1] = d)[2])
        ELSE None]

\* The value a table has when it is fully built.
Built(table) ==
    IF table = "PLUGIN_TYPES_IMPLIED" THEN ImpliedTypes ELSE ImpliedUnits

\* What holds of the tables in every state.
LazyOnceInv ==
    /\ \A table \in Tables :
          /\ runs[table] <= 1
          /\ once[table] = "COMPLETE" => runs[table] = 1 /\ cell[table].some
          /\ cell[table].some => IsTable(table, cell[table].value)
    /\ \A t \in Threads :
          /\ tpc[t] = "read" => once[tbl[t]] = "COMPLETE"
          /\ tpc[t] = "got" =>
                /\ seen[t].some
                /\ seen[t] = cell[tbl[t]]
                /\ seen[t].value = Built(tbl[t])
                /\ \A u \in Threads :
                      Holds(u, tbl[t]) => seen[u] = seen[t]

\* What holds of the tables in every step: a cell that holds a value keeps
\* it, and the initialiser body is not entered for a table whose cell holds
\* a value.
LazyOnceStep ==
    \A table \in Tables :
        cell[table].some =>
            /\ cell'[table] = cell[table]
            /\ runs'[table] = runs[table]

\* C20: each implication table is initialised lazily exactly once: under
\* any interleaving of first accesses by several threads the initialiser
\* body runs once, no reader gets an uninitialised or partly built table,
\* and once a table is initialised its value never changes and every reader
\* gets the same value.
C20_LazyExactlyOnce == []LazyOnceInv /\ [][LazyOnceStep]_vars

\* C20 witness: all threads hold the same table at once, its initialiser
\* body having run once, and the other table is initialised too.
C20_Witness ==
    /\ \E table \in Tables : \A t \in Threads : Holds(t, table) /\ seen[t].some
    /\ \A table \in Tables : once[table] = "COMPLETE" /\ runs[table] = 1

\* The node type as a graph: an edge from every node to each of its parents.
ParentGraph(P) == [node \in Nodes |-> Range(P[node])]

\* The node and every node reached from it by following parents() one or
\* more times.
SelfAndAncestors(P, node) == Reachable(ParentGraph(P), node)

\* The last call on the node type was `name` and has returned.
HReturned(name) == hop = name /\ hpc = "done"

\* C21: node.ancestors_and_self() returns exactly the node and every node
\* reached from it by following parents() one or more times, whatever the
\* parent relation (tree, forest, shared ancestors, cycles); a root returns
\* the singleton of itself.
C21_AncestorsExact ==
    HReturned("ancestors_and_self") =>
        /\ hret = SelfAndAncestors(parents, hself)
        /\ parents[hself] = << >> => hret = {hself}

\* C21 witness: the search has returned for a node with two parents one of
\* which is a parent of the other, so that an ancestor is shared.
C21_Witness ==
    /\ HReturned("ancestors_and_self")
    /\ hret = Nodes
    /\ \E b \in Nodes, c \in Nodes :
          /\ Cardinality({hself, b, c}) = 3
          /\ parents[hself] = <<b, c>>
          /\ parents[b] = <<c>>
          /\ parents[c] = << >>

\* The node the search runs on has a cycle among itself and its ancestors.
CycleAbove ==
    \E n \in SelfAndAncestors(parents, hself) :
        \E m \in Range(parents[n]) : n \in SelfAndAncestors(parents, m)

\* What the search returns on the two cycles of the claim.
CycleResults ==
    HReturned("ancestors_and_self") =>
        /\ \A b \in Nodes :
              (b # hself /\ parents[hself] = <<b>> /\ parents[b] = <<hself>>)
                  => hret = {hself, b}
        /\ parents[hself] = <<hself>> => hret = {hself}

\* C22: ancestors_and_self() terminates on cyclic parent relations: with
\* A.parents() = [B] and B.parents() = [A] it returns {A, B}, with a node
\* that is its own only parent it returns the singleton of that node; while
\* it runs, next_parents is never longer than the number of parent links.
C22_TerminatesOnCycles ==
    /\ [](CycleResults)
    /\ []((hpc = "anc") => Len(next_parents) <= LinksFrom(parents, 0))
    /\ ((hpc = "anc" /\ CycleAbove) ~> (hpc = "done"))

\* C22 witness: the search has returned on a cycle of two nodes.
C22_Witness ==
    /\ HReturned("ancestors_and_self")
    /\ \E b \in Nodes :
          /\ b # hself
          /\ parents[hself] = <<b>>
          /\ parents[b] = <<hself>>
          /\ hret = {hself, b}

\* The reverse of a list.
RECURSIVE Reversed(_)
Reversed(l) == IF l = << >> THEN << >> ELSE Reversed(Tail(l)) \o <<Head(l)>>

\* C23: ancestors_and_self_multiple returns the union of ancestors_and_self
\* of each starting node, whatever their order and multiplicity, and the
\* empty set for the empty list.
C23_MultipleIsUnion ==
    HReturned("ancestors_and_self_multiple") =>
        /\ hret = UNION {SelfAndAncestors(parents, n) : n \in Range(children)}
        /\ hret = UNION {ancestors_and_self(parents, n) : n \in Range(children)}
        /\ hret = ancestors_and_self_multiple(parents, Reversed(children))
        /\ hret = ancestors_and_self_multiple(parents,
                                              set_iter(Range(children)))
        /\ children = << >> => hret = {}

\* C23 witness: the call has returned for two different starting nodes
\* that have an ancestor in common, neither being an ancestor of the other.
C23_Witness ==
    /\ HReturned("ancestors_and_self_multiple")
    /\ Len(children) = 2
    /\ children[1] \notin SelfAndAncestors(parents, children[2])
    /\ children[2] \notin SelfAndAncestors(parents, children[1])
    /\ SelfAndAncestors(parents, children[1])
          \cap SelfAndAncestors(parents, children[2]) # {}

\* C23 witness: the call has returned for a list that names a node twice.
C23_WitnessTwice ==
    /\ HReturned("ancestors_and_self_multiple")
    /\ Len(children) = 2
    /\ children[1] = children[2]
    /\ parents[children[1]] # << >>

\* A step of the loop of ancestors_and_self that is not its last.
AncIteration == hpc = "anc" /\ hpc' = "anc"

\* C28 as stated: every execution of the body of the loop of
\* ancestors_and_self adds at least one node to visited that was not in it
\* before.
C28_VisitedStrictlyGrows ==
    [][AncIteration =>
          (anc_visited \subseteq anc_visited' /\ anc_visited' # anc_visited)]_vars

\* C28 as amended: every execution of the body of the loop either adds at
\* least one node to visited that was not in it before, or leaves
\* next_parents empty, which ends the loop; visited never loses a node.
C28_VisitedGrowsOrLoopEnds ==
    [][AncIteration =>
          /\ anc_visited \subseteq anc_visited'
          /\ anc_visited' # anc_visited \/ next_parents' = << >>]_vars

\* C28 witness: the loop has run at least once and its next iteration finds
\* only visited nodes in next_parents.
C28_Witness ==
    /\ hpc = "anc"
    /\ anc_visited # {}
    /\ next_parents # << >>
    /\ Range(next_parents) \subseteq anc_visited

\* C24: a.is_subclass_of(b) terminates and returns true exactly when b is
\* reached from a by following direct_superclasses() zero or more times,
\* cycles allowed; a.is_subclass_of(a) is true; b.is_superclass_of(a)
\* returns what a.is_subclass_of(b) returns.  While the search runs,
\* remaining is never longer than one plus the number of links.
C24_SubclassIsReachability ==
    /\ []((cpc = "done") =>
            /\ cret <=> (cother \in SelfAndAncestors(superclasses, cself))
            /\ cself = cother => cret
            /\ is_superclass_of(superclasses, cother, cself) = cret)
    /\ []((cpc = "sub") =>
            Len(remaining) <= SuperLinksFrom(superclasses, 0) + 1)
    /\ ((cpc = "sub") ~> (cpc = "done"))

\* C24 witness: is_subclass_of has returned true for a class and a class
\* other than itself and its direct superclasses, reached over two links.
C24_Witness ==
    /\ cpc = "done"
    /\ cret
    /\ cother # cself
    /\ cother \notin Range(superclasses[cself])

\* C24 witness: is_subclass_of has returned false in a hierarchy with a
\* cycle above the class.
C24_WitnessCycle ==
    /\ cpc = "done"
    /\ ~cret
    /\ \E c \in Range(superclasses[cself]) :
          c # cself /\ cself \in Range(superclasses[c])

\* C25: in the standard atom class hierarchy the classes c for which
\* MidiNoteOn.is_subclass_of(c) is true are exactly MidiNoteOn,
\* MidiVoiceMessage, MidiEvent and Atom.
C25_MidiNoteOnAncestors ==
    (std_call = "atom" /\ std_self = "MidiNoteOn") =>
        (std_sub <=>
            std_other \in {"MidiNoteOn", "MidiVoiceMessage", "MidiEvent", "Atom"})

\* C25 witness: MidiNoteOn.is_subclass_of(MidiEvent) has returned true, and
\* MidiEvent has no arm of its own in direct_superclasses.
C25_Witness ==
    /\ std_call = "atom"
    /\ std_self = "MidiNoteOn"
    /\ std_other = "MidiEvent"
    /\ std_sub
    /\ direct_superclasses_StdAtomType("MidiEvent") = <<"Atom">>

\* C30: for every two plugin types that are both a PluginType and a
\* StdPluginType, the plugin-type implication graph has the edge (a, b)
\* exactly when the StdPluginType a is a subclass of the StdPluginType b.
C30_EnginesAgree ==
    std_call = "plugin" => (std_edge <=> std_sub)

\* C30 witness: both calls have returned true for MultiEQ and Filter, which
\* the class hierarchy links only by way of EQ.
C30_Witness ==
    /\ std_call = "plugin"
    /\ std_self = <<"MultiEQ", "MultiEQPlugin">>
    /\ std_other = <<"Filter", "FilterPlugin">>
    /\ std_edge
    /\ std_sub
    /\ "FilterPlugin" \notin Range(direct_superclasses_StdPluginType("MultiEQPlugin"))

\* C30 witness: both calls have returned false for two different types.
C30_WitnessFalse ==
    /\ std_call = "plugin"
    /\ std_self # std_other
    /\ ~std_edge
    /\ ~std_sub

\* C26: is_dev_release returns true only for development releases other than
\* pre-releases: when it returns true, is_pre_release is false; and for a
\* version that is no pre-release it returns true exactly when the minor or
\* the micro version is odd.
C26_DevReleaseIsNoPreRelease ==
    vcall = "is_dev_release" =>
        /\ vret => ~is_pre_release(version)
        /\ ~is_pre_release(version) =>
              (vret <=> (version.minor_version % 2 = 1
                         \/ version.micro_version % 2 = 1))

\* C27: every Literal a constructor gives has the data type of the
\* language-tagged literals exactly when it has a language tag;
\* with_data_type gives None exactly when the data type asked for is that
\* data type, and a literal of the data type asked for otherwise.
C27_LangStringIffLangTag ==
    /\ literal.some =>
          ((literal.value.data_type = lang_tagged_literal_data_type)
              <=> literal.value.lang_tag.some)
    /\ lcall = "with_data_type" =>
          /\ (literal = None) <=> (requested = lang_tagged_literal_data_type)
          /\ literal.some => literal.value.data_type = requested
    /\ lcall \in {"new", "with_lang_tag"} => literal.some

\* C27 witness: with_data_type was asked for the data type of the
\* language-tagged literals and gave None.
C27_Witness ==
    /\ lcall = "with_data_type"
    /\ requested = lang_tagged_literal_data_type
    /\ literal = None

\* C27 witness: with_data_type gave a literal of a data type whose text
\* differs from the one of the language-tagged literals in case only.
C27_WitnessOtherCase ==
    /\ lcall = "with_data_type"
    /\ literal.some
    /\ literal.value.data_type
          = "http://www.w3.org/1999/02/22-rdf-syntax-ns#langstring"

\* The counted call of reachable_nodes is running or has returned.
Counted == pc = "count" \/ (pc = "done" /\ op = "reachable_nodes")

\* How many nodes were expanded: once for every time a node's successors
\* were pushed.
RECURSIVE SumTo(_, _)
SumTo(f, n) == IF n < 0 THEN 0 ELSE f[n] + SumTo(f, n - 1)
Expansions == SumTo(pushes, NumNodes - 1)

CountInv ==
    Counted =>
        /\ \A n \in Nodes : marks[n] <= 1 /\ pushes[n] <= 1
        /\ (Range(stack) \cup visited) \subseteq Reachable(adj_sets, from)
        /\ Expansions <= NumNodes
        /\ pops <= 1 + Cardinality(Edges(adj_sets))
        \* so the call is followed to its end: CountStep is never held back
        /\ stack # << >> => pops <= Cardinality(Edges(adj_sets))

CountStepOk == (pc = "count") => (visited \subseteq visited')

\* C29: during reachable_nodes(from) every node is marked visited at most
\* once and has its successors pushed at most once, visited never shrinks,
\* every node on the stack or in visited is reachable from `from`; the
\* expansions are at most the nodes of the domain and the pops are at most
\* one more than the edges of the graph.
C29_SearchIsBounded == []CountInv /\ [][CountStepOk]_vars

\* C29 witness: a call has returned that popped one more node than the graph
\* has edges, more than it visited: some node was popped when it was visited
\* already, and every node of the domain was expanded.
C29_Witness ==
    /\ pc = "done" /\ op = "reachable_nodes"
    /\ pops = 1 + Cardinality(Edges(adj_sets))
    /\ pops > Cardinality(visited)
    /\ Expansions = NumNodes
    /\ \A n \in Nodes : marks[n] = 1

====
